---- MODULE Spec2Model ----
(***************************************************************************)
(* pinned-sync: Mutex, RwLock, Condvar and Barrier with two-phase          *)
(* initialisation and poisoning, on the native (unix/pthread) backend.     *)
(*                                                                         *)
(* Threads are preemptively scheduled; every action below is one step of   *)
(* one thread.  A blocking call is an action that is enabled only when the *)
(* native primitive lets the caller through.                               *)
(***************************************************************************)
EXTENDS Integers, FiniteSets, Sequences, TLC

\* ------------------------------------------------------------------ bounds
NumThreads == 3
\* J: lock/increment/unlock cycles of each thread of the counter program
Cycles == 2
\* threads that use the RwLock
NumRwThreads == 2
\* read guards one thread may hold at a time
MaxReadGuards == 1
\* threads of the condvar programs
NumCvThreads == 2
\* waiting threads of the notify_all program
NumWaiters == 2
\* the monotonic clock stops here
MaxTime == 2
\* the longest duration passed to a timed wait
MaxDur == 1
\* wait() calls each thread makes on the Barrier
MaxRounds == 2
\* BarrierState.generation_id is a usize that wraps; the model wraps it here
GenModulus == 2

Threads == 1..NumThreads
RwThreads == 1..NumRwThreads
CvThreads == 1..NumCvThreads
NoThread == 0

VARIABLES
    pc,         \* pc[t]: where thread t is
    panicking,  \* panicking[t]: std::thread::panicking() of thread t
    result,     \* result[t]: what the call that gave t its guard returned ("none": no guard)
    owner,      \* sys::Mutex: the thread the pthread mutex is locked by, or NoThread
    failed,     \* poison::Flag.failed of the Mutex / RwLock
    holds,      \* holds[t]: t has a live MutexGuard in hand
    token,      \* token[t]: poison::Guard.panicking of t's guard
    waiters,    \* sys::Condvar: threads blocked in the native wait
    crashed,    \* history: threads that panicked while holding an exclusive guard
    data,       \* Mutex<u32>.data: the guarded value
    tmp,        \* tmp[t]: the value t read for its `*guard += 1`
    phase,      \* phase[t]: 0 nothing read, 1 value read, 2 value written back
    cycles,     \* cycles[t]: completed lock/increment/unlock cycles of t
    rw_w,       \* pthread_rwlock_t: the thread holding it for writing, or NoThread
    rw_r,       \* pthread_rwlock_t: rw_r[t] read locks held by thread t
    write_locked, \* sys::RwLock.write_locked
    num_readers,  \* sys::RwLock.num_readers
    rguards,    \* rguards[t]: live RwLockReadGuards of t
    wguard,     \* wguard[t]: t has a live RwLockWriteGuard
    mid,        \* the guarded value is in the middle of a writer's update
    rcrashed,   \* history: threads that panicked while holding only read guards
    num_threads,   \* Barrier.num_threads
    count,         \* BarrierState.count
    generation_id, \* BarrierState.generation_id
    local_gen,     \* local_gen[t]: the generation t recorded on arrival
    b_ret,         \* b_ret[t]: what t's last wait() returned ("none": not returned)
    calls,         \* calls[t]: wait() calls t has started
    arrivals,      \* history: wait() calls that have arrived (incremented count)
    my_round,      \* history: my_round[t], the group of N arrivals t's call is in
    leaders,       \* history: leaders[r], calls of round r that returned true
    followers,     \* history: followers[r], calls of round r that returned false
    spur,          \* history: spur[t], t's current call was woken spuriously
    op,         \* op[t]: the Condvar wait variant t is inside ("none": plain wait or none)
    started,    \* Mutex<bool>.data of the condvar tests: the shared condition
    pred,       \* pred[t]: the predicate t passed to wait_while / wait_timeout_while
    now,        \* the monotonic clock
    start,      \* start[t]: Instant::now() when t's timed call began
    dur,        \* dur[t]: the duration t passed
    deadline,   \* deadline[t]: when the native timed wait of t gives up
    timed_out,  \* timed_out[t]: WaitTimeoutResult of t's timed wait ("none", "yes", "no")
    signalled,  \* history: signalled[t], a notify was issued for t while it waited
    missed,     \* history: a notify was issued while nobody waited
    prim,       \* the primitive the init and poison programs use ("none": created initialized)
    debug_assertions, \* cfg(debug_assertions) of the build
    backend,    \* cfg(unix) of the build: the sys module in use ("unix", "fallback")
    host_poisoned, \* sys::fallback: the poison flag of the std::sync::Mutex in sys::Mutex
    state,      \* InitAssert.state of the primitive's sys object
    runs,       \* history: times the factory of init_with was started
    writes,     \* history: times the factory wrote InitAssert.data
    drops,      \* history: times drop_in_place ran on InitAssert.data
    gone,       \* the primitive has been dropped or consumed
    call,       \* call[t]: the last operation t called on the primitive ("none": none yet)
    life        \* history: "no" init() call yet, one "started", or one has returned ("done")

tvars == <<pc, panicking, result>>
mvars == <<owner, failed, holds, token, waiters, crashed>>
cvars == <<data, tmp, phase, cycles>>
rwcore == <<rw_w, rw_r, write_locked, num_readers, rguards, wguard, mid>>
rvars == <<rw_w, rw_r, write_locked, num_readers, rguards, wguard, mid, rcrashed>>
xvars == <<op, started, pred, now, start, dur, deadline, timed_out,
           signalled, missed>>
xprog == <<op, started, pred, now, start, dur, deadline, timed_out>>
bvars == <<num_threads, count, generation_id, local_gen, b_ret, calls, arrivals,
           my_round, leaders, followers, spur>>
ivars == <<prim, debug_assertions, backend, host_poisoned, state, runs, writes, drops, gone, call, life>>
vars == <<pc, panicking, result, owner, failed, holds, token, waiters, crashed,
          data, tmp, phase, cycles,
          rw_w, rw_r, write_locked, num_readers, rguards, wguard, mid, rcrashed,
          num_threads, count, generation_id, local_gen, b_ret, calls, arrivals,
          my_round, leaders, followers, spur,
          op, started, pred, now, start, dur, deadline, timed_out,
          signalled, missed,
          prim, debug_assertions, backend, host_poisoned, state, runs, writes, drops, gone, call, life>>

\* ------------------------------------------------------- sys_common::poison

\* Flag::borrow: the token records whether the thread is unwinding now.
borrow_token(t) == panicking[t]

\* Flag::borrow: Err(PoisonError) iff the flag is set; map_result keeps the variant.
borrow_result == IF failed THEN "Poisoned" ELSE "Ok"

\* The flag tells how the last guard was released.
done_last_release(t) == failed' = (~token[t] /\ panicking[t])

\* Every guard dropped during an unwind sets the flag, whenever it was taken.
done_ignores_token(t) == failed' = IF panicking[t] THEN TRUE ELSE failed

\* Mutant of done: the test on the token inverted.
done_token_inverted(t) == failed' = IF token[t] /\ panicking[t] THEN TRUE ELSE failed

\* Flag::done: set the flag iff the guard was taken outside an unwind and the
\* thread is unwinding now.  The flag is never cleared.
done(t) == failed' = IF ~token[t] /\ panicking[t] THEN TRUE ELSE failed

\* ------------------------------------------------------- sys::unix::mutex

\* pthread_mutex_lock on a PTHREAD_MUTEX_NORMAL mutex returns (with 0) only once
\* the mutex is free; a relock by the owner never returns.
pthread_mutex_lock_returns(t) == owner = NoThread

\* Mutant of sys_lock: the lock is taken without waiting for it to be free.
sys_lock_no_wait(t) == owner' = t

\* Mutex::lock -> lock_inner
sys_lock(t) == pthread_mutex_lock_returns(t) /\ owner' = t

\* Mutex::try_lock: calls pthread_mutex_lock and maps result == 0 to Some.
sys_try_lock(t) == pthread_mutex_lock_returns(t) /\ owner' = t

\* impl Drop for sys MutexGuard: pthread_mutex_unlock
sys_unlock(t) == owner' = NoThread

\* ------------------------------------------------------------------ Mutex

Running(t) == pc[t] = "run"

\* A thread enters Mutex::lock and blocks in the native lock.
LockCall(t) ==
    /\ Running(t)
    /\ pc' = [pc EXCEPT ![t] = "lock"]
    /\ UNCHANGED <<panicking, result, mvars>>

\* Mutex::lock returns: native lock taken, then poison.borrow() decides Ok/Poisoned.
LockReturn(t) ==
    /\ pc[t] = "lock"
    /\ sys_lock(t)
    /\ token' = [token EXCEPT ![t] = borrow_token(t)]
    /\ result' = [result EXCEPT ![t] = borrow_result]
    /\ holds' = [holds EXCEPT ![t] = TRUE]
    /\ pc' = [pc EXCEPT ![t] = "run"]
    /\ UNCHANGED <<panicking, failed, waiters, crashed>>

\* A thread enters Mutex::try_lock.
TryLockCall(t) ==
    /\ Running(t)
    /\ pc' = [pc EXCEPT ![t] = "try_lock"]
    /\ UNCHANGED <<panicking, result, mvars>>

\* try_lock gives up on a poisoned mutex: WouldBlock, no guard.
TryLockReturn_refuses_poisoned(t) ==
    /\ pc[t] = "try_lock"
    /\ IF failed
       THEN /\ result' = [result EXCEPT ![t] = "WouldBlock"]
            /\ UNCHANGED <<owner, token, holds>>
       ELSE /\ sys_try_lock(t)
            /\ token' = [token EXCEPT ![t] = borrow_token(t)]
            /\ result' = [result EXCEPT ![t] = borrow_result]
            /\ holds' = [holds EXCEPT ![t] = TRUE]
    /\ pc' = [pc EXCEPT ![t] = "run"]
    /\ UNCHANGED <<panicking, failed, waiters, crashed>>

\* Mutex::try_lock returns: Some(guard) from the sys layer, then poison.borrow().
\* The sys layer's None (WouldBlock) needs a non-zero result of pthread_mutex_lock,
\* which a NORMAL mutex does not give.
TryLockReturn(t) ==
    /\ pc[t] = "try_lock"
    /\ sys_try_lock(t)
    /\ token' = [token EXCEPT ![t] = borrow_token(t)]
    /\ result' = [result EXCEPT ![t] = borrow_result]
    /\ holds' = [holds EXCEPT ![t] = TRUE]
    /\ pc' = [pc EXCEPT ![t] = "run"]
    /\ UNCHANGED <<panicking, failed, waiters, crashed>>

\* impl Drop for MutexGuard: poison.done(&self.poison) runs first ...
GuardDrop(t) ==
    /\ Running(t)
    /\ holds[t]
    /\ done(t)
    /\ holds' = [holds EXCEPT ![t] = FALSE]
    /\ result' = [result EXCEPT ![t] = "none"]
    /\ pc' = [pc EXCEPT ![t] = "unlock"]
    /\ UNCHANGED <<panicking, owner, token, waiters, crashed>>

\* ... then the fields are dropped: the sys guard unlocks the pthread mutex.
GuardUnlock(t) ==
    /\ pc[t] = "unlock"
    /\ sys_unlock(t)
    /\ pc' = [pc EXCEPT ![t] = "run"]
    /\ UNCHANGED <<panicking, result, failed, holds, token, waiters, crashed>>

\* The thread panics and starts to unwind; its guard is dropped by the unwind.
Panic(t) ==
    /\ Running(t)
    /\ ~panicking[t]
    /\ panicking' = [panicking EXCEPT ![t] = TRUE]
    /\ crashed' = IF holds[t] THEN crashed \cup {t} ELSE crashed
    /\ UNCHANGED <<pc, result, owner, failed, holds, token, waiters>>

\* The unwind is over: every guard of the thread has been dropped.
Finish(t) ==
    /\ Running(t)
    /\ panicking[t]
    /\ ~holds[t]
    /\ pc' = [pc EXCEPT ![t] = "dead"]
    /\ UNCHANGED <<panicking, result, mvars>>

\* ---------------------------------------------------------------- Condvar

\* sys Condvar::wait, first half: release the mutex and block, atomically.
sys_wait_block(t) == owner' = NoThread /\ waiters' = waiters \cup {t}

\* sys Condvar::wait, second half: woken, re-acquire the mutex.
sys_wait_relock(t) == owner = NoThread /\ owner' = t

\* sys Condvar::notify_one: wake one waiter, if any.
sys_notify_one(w) == w \in waiters /\ waiters' = waiters \ {w}

\* The poison flag is not looked at after the wait.
repoison_always_ok == "Ok"

\* MutexGuard::repoison after the wait.
repoison == IF failed THEN "Poisoned" ELSE "Ok"

\* Notifications are buffered: a notify issued when nobody waited is handed to
\* the next thread that waits, which does not block.
Wait_consumes_missed(t) ==
    /\ Running(t)
    /\ holds[t]
    /\ owner' = NoThread
    /\ waiters' = IF missed THEN waiters ELSE waiters \cup {t}
    /\ holds' = [holds EXCEPT ![t] = FALSE]
    /\ result' = [result EXCEPT ![t] = "none"]
    /\ pc' = [pc EXCEPT ![t] = IF missed THEN "cv_relock" ELSE "cv_wait"]
    /\ UNCHANGED <<panicking, failed, token, crashed>>

\* The mutex is released before the thread is registered as a waiter, and a
\* notification that falls in between finds nobody.
Wait_unregistered(t) ==
    /\ Running(t)
    /\ holds[t]
    /\ owner' = NoThread
    /\ holds' = [holds EXCEPT ![t] = FALSE]
    /\ result' = [result EXCEPT ![t] = "none"]
    /\ pc' = [pc EXCEPT ![t] = "cv_wait"]
    /\ UNCHANGED <<panicking, failed, token, waiters, crashed>>

\* Condvar::wait: lock.map(|guard| inner.wait(guard)), entering the wait.
Wait(t) ==
    /\ Running(t)
    /\ holds[t]
    /\ sys_wait_block(t)
    /\ holds' = [holds EXCEPT ![t] = FALSE]
    /\ result' = [result EXCEPT ![t] = "none"]
    /\ pc' = [pc EXCEPT ![t] = "cv_wait"]
    /\ UNCHANGED <<panicking, failed, token, crashed>>

\* Condvar::notify_one
NotifyOne(t) ==
    /\ Running(t)
    /\ \E w \in waiters :
        /\ sys_notify_one(w)
        /\ pc' = [pc EXCEPT ![w] = "cv_relock"]
    /\ UNCHANGED <<panicking, result, owner, failed, holds, token, crashed>>

\* notify_all wakes one waiter only.
NotifyAll_wakes_one(t) ==
    /\ Running(t)
    /\ \E w \in waiters :
        /\ waiters' = waiters \ {w}
        /\ pc' = [pc EXCEPT ![w] = "cv_relock"]
    /\ UNCHANGED <<panicking, result, owner, failed, holds, token, crashed>>

\* Condvar::notify_all
NotifyAll(t) ==
    /\ Running(t)
    /\ waiters # {}
    /\ waiters' = {}
    /\ pc' = [u \in Threads |-> IF u \in waiters THEN "cv_relock" ELSE pc[u]]
    /\ UNCHANGED <<panicking, result, owner, failed, holds, token, crashed>>

\* A spurious wakeup of the native wait.
SpuriousWake(w) ==
    /\ sys_notify_one(w)
    /\ pc' = [pc EXCEPT ![w] = "cv_relock"]
    /\ UNCHANGED <<panicking, result, owner, failed, holds, token, crashed>>

\* Mutant of WaitReturn: the guard handed back carries a token taken at the
\* return, as a new acquisition would.
WaitReturn_fresh_token(t) ==
    /\ pc[t] = "cv_relock"
    /\ sys_wait_relock(t)
    /\ holds' = [holds EXCEPT ![t] = TRUE]
    /\ token' = [token EXCEPT ![t] = borrow_token(t)]
    /\ result' = [result EXCEPT ![t] = repoison]
    /\ pc' = [pc EXCEPT ![t] = "run"]
    /\ UNCHANGED <<panicking, failed, waiters, crashed>>

\* Condvar::wait returns: mutex re-acquired, the guard keeps its token, repoison().
WaitReturn(t) ==
    /\ pc[t] = "cv_relock"
    /\ sys_wait_relock(t)
    /\ holds' = [holds EXCEPT ![t] = TRUE]
    /\ result' = [result EXCEPT ![t] = repoison]
    /\ pc' = [pc EXCEPT ![t] = "run"]
    /\ UNCHANGED <<panicking, failed, token, waiters, crashed>>

\* ------------------------------------------------------------ specification

\* Threads after construction; Mutex::uninit + init: unlocked, flag clear.
InitMutex ==
    /\ pc = [t \in Threads |-> "run"]
    /\ panicking = [t \in Threads |-> FALSE]
    /\ result = [t \in Threads |-> "none"]
    /\ owner = NoThread
    /\ failed = FALSE
    /\ holds = [t \in Threads |-> FALSE]
    /\ token = [t \in Threads |-> FALSE]
    /\ waiters = {}
    /\ crashed = {}

\* The counter program has not started.
InitCounter ==
    /\ data = 0
    /\ tmp = [t \in Threads |-> 0]
    /\ phase = [t \in Threads |-> 0]
    /\ cycles = [t \in Threads |-> 0]

\* sys::RwLock::uninit: PTHREAD_RWLOCK_INITIALIZER, no writer, no readers.
InitRwLock ==
    /\ rw_w = NoThread
    /\ rw_r = [t \in Threads |-> 0]
    /\ write_locked = FALSE
    /\ num_readers = 0
    /\ rguards = [t \in Threads |-> 0]
    /\ wguard = [t \in Threads |-> FALSE]
    /\ mid = FALSE
    /\ rcrashed = {}

\* Barrier::uninit(n) + init: nobody has arrived, generation 0.
InitBarrier(n) ==
    /\ num_threads = n
    /\ count = 0
    /\ generation_id = 0
    /\ local_gen = [t \in Threads |-> 0]
    /\ b_ret = [t \in Threads |-> "none"]
    /\ calls = [t \in Threads |-> 0]
    /\ arrivals = 0
    /\ my_round = [t \in Threads |-> 0]
    /\ leaders = [r \in 0..(MaxRounds - 1) |-> 0]
    /\ followers = [r \in 0..(MaxRounds - 1) |-> 0]
    /\ spur = [t \in Threads |-> FALSE]

\* The condvar programs have not started; Mutex::arc(false).
InitCondvar ==
    /\ op = [t \in Threads |-> "none"]
    /\ started = FALSE
    /\ pred = [t \in Threads |-> "none"]
    /\ now = 0
    /\ start = [t \in Threads |-> 0]
    /\ dur = [t \in Threads |-> 0]
    /\ deadline = [t \in Threads |-> 0]
    /\ timed_out = [t \in Threads |-> "none"]
    /\ signalled = [t \in Threads |-> FALSE]
    /\ missed = FALSE

\* InitAssert.state
UNINIT == 0
INIT_IN_PROGRESS == -1
INIT == 1

\* The primitive came from boxed() / arc(): uninit(), then init() once.
InitDone ==
    /\ prim = "none"
    /\ debug_assertions = TRUE
    /\ backend = "unix"
    /\ host_poisoned = FALSE
    /\ state = INIT
    /\ runs = 1
    /\ writes = 1
    /\ drops = 0
    /\ gone = FALSE
    /\ call = [t \in Threads |-> "none"]
    /\ life = "done"

Init ==
    /\ InitMutex /\ InitCounter /\ InitRwLock /\ InitBarrier(NumThreads) /\ InitCondvar
    /\ InitDone

\* What the Mutex and Condvar operations leave alone.
MutexFrame == UNCHANGED <<cvars, rvars, bvars, xvars, ivars>>

\* Any interleaving of the operations of one Mutex and one Condvar.
Next ==
    \E t \in Threads :
        \/ LockCall(t) /\ MutexFrame
        \/ LockReturn(t) /\ MutexFrame
        \/ TryLockCall(t) /\ MutexFrame
        \/ TryLockReturn(t) /\ MutexFrame
        \/ GuardDrop(t) /\ MutexFrame
        \/ GuardUnlock(t) /\ MutexFrame
        \/ Panic(t) /\ MutexFrame
        \/ Finish(t) /\ MutexFrame
        \/ Wait(t) /\ MutexFrame
        \/ NotifyOne(t) /\ MutexFrame
        \/ NotifyAll(t) /\ MutexFrame
        \/ SpuriousWake(t) /\ MutexFrame
        \/ WaitReturn(t) /\ MutexFrame

Spec == Init /\ [][Next]_vars

\* ------------------------------------------------------------ Mutex claims

\* The guard of t no longer exists: not in hand, and not inside a Condvar wait.
GuardGone(t) == ~holds[t] /\ pc[t] \notin {"cv_wait", "cv_relock"}

\* C1: at most one thread holds a MutexGuard of the mutex, and the holder is the
\* thread the native mutex is locked by, in every interleaving of lock, try_lock,
\* guard drops and Condvar waits.
C1_MutualExclusion ==
    /\ \A t, u \in Threads : (holds[t] /\ holds[u]) => t = u
    /\ \A t \in Threads : holds[t] => owner = t

\* C1 witness: one thread holds the guard while another is blocked in lock() and a
\* third, woken from a Condvar wait, is waiting to re-acquire the mutex.
C1_Witness ==
    \E t, u, w \in Threads :
        holds[t] /\ pc[u] = "lock" /\ pc[w] = "cv_relock"

\* C2 (as claimed): a try_lock call made while the mutex is held does not wait for
\* the holder: it can return at once.
C2_TryLockNeverBlocks ==
    \A t \in Threads :
        (pc[t] = "try_lock" /\ owner # NoThread) => ENABLED TryLockReturn(t)

\* C4: once a thread that panicked while holding the guard has dropped it, the
\* poison flag is set, and it stays set; a dead thread does not own the mutex;
\* and every lock() that returns to another thread after that returns Poisoned
\* with a guard that holds the mutex.
C4_MutexPoisoning ==
    /\ [](\A t \in crashed : GuardGone(t) => failed)
    /\ [](\A t \in Threads : pc[t] = "dead" => (owner # t /\ ~holds[t]))
    /\ [][failed => failed']_vars
    /\ [][\A u \in Threads :
            (LockReturn(u) /\ \E t \in crashed : t # u /\ GuardGone(t))
                => (result'[u] = "Poisoned" /\ holds'[u] /\ owner' = u)]_vars

\* C4 witness: a thread that panicked holding the guard is dead, and another
\* thread holds the guard lock() gave it with a Poisoned error.
C4_Witness ==
    \E t \in crashed, u \in Threads :
        pc[t] = "dead" /\ holds[u] /\ result[u] = "Poisoned" /\ ~panicking[u]

\* ------------------------------------------------- the counter program
\* tests/mutex.rs lots_and_lots: K threads, each J times
\*     *m.lock().unwrap() += 1;
\* with the read and the write of the increment as separate steps.

\* m.lock(): the call
CtLockCall(t) ==
    /\ cycles[t] < Cycles
    /\ ~holds[t]
    /\ LockCall(t)
    /\ UNCHANGED cvars

\* m.lock() returns; unwrap() takes the guard out of the Ok.
CtLockReturn(t) ==
    /\ LockReturn(t)
    /\ UNCHANGED cvars

\* `*guard += 1`: read through deref_mut
CtRead(t) ==
    /\ Running(t)
    /\ holds[t]
    /\ phase[t] = 0
    /\ tmp' = [tmp EXCEPT ![t] = data]
    /\ phase' = [phase EXCEPT ![t] = 1]
    /\ UNCHANGED <<tvars, mvars, data, cycles>>

\* `*guard += 1`: write back
CtWrite(t) ==
    /\ Running(t)
    /\ holds[t]
    /\ phase[t] = 1
    /\ data' = tmp[t] + 1
    /\ phase' = [phase EXCEPT ![t] = 2]
    /\ UNCHANGED <<tvars, mvars, tmp, cycles>>

\* the temporary guard is dropped at the end of the statement
CtDrop(t) ==
    /\ phase[t] = 2
    /\ GuardDrop(t)
    /\ phase' = [phase EXCEPT ![t] = 0]
    /\ cycles' = [cycles EXCEPT ![t] = cycles[t] + 1]
    /\ UNCHANGED <<data, tmp>>

CtUnlock(t) ==
    /\ GuardUnlock(t)
    /\ UNCHANGED cvars

\* What the counter program leaves alone.
CtFrame == UNCHANGED <<rvars, bvars, xvars, ivars>>

CtStep(t) ==
    \/ CtLockCall(t) /\ CtFrame
    \/ CtLockReturn(t) /\ CtFrame
    \/ CtRead(t) /\ CtFrame
    \/ CtWrite(t) /\ CtFrame
    \/ CtDrop(t) /\ CtFrame
    \/ CtUnlock(t) /\ CtFrame

NextCounter == \E t \in Threads : CtStep(t)

\* Every thread that can take a step is scheduled eventually.
SpecCounter ==
    /\ Init
    /\ [][NextCounter]_vars
    /\ \A t \in Threads : WF_vars(CtStep(t))

CtAllDone == \A t \in Threads : cycles[t] = Cycles /\ pc[t] = "run"

\* C3: with K threads doing J lock/increment/unlock cycles each on a value that
\* starts at 0, every thread finishes in every fair interleaving, and once all
\* have finished the value is K*J; no increment is lost on the way either.
C3_NoLostUpdates ==
    /\ <>[](CtAllDone /\ data = NumThreads * Cycles)
    /\ [](\A t \in Threads : phase[t] = 1 => tmp[t] = data)
    /\ [](CtAllDone => data = NumThreads * Cycles)

\* C3 witness: all K threads have finished their J cycles and the value is K*J.
C3_Witness ==
    /\ CtAllDone
    /\ owner = NoThread
    /\ data = NumThreads * Cycles

\* ------------------------------------------------------ sys::unix::rwlock
\* The native lock follows POSIX: a write lock is granted only when nobody holds
\* the lock, a read lock only when no writer holds it; a blocking call by a thread
\* that itself holds a conflicting lock either never returns or returns EDEADLK.

native_rd_free == rw_w = NoThread

native_wr_free == rw_w = NoThread /\ \A u \in RwThreads : rw_r[u] = 0

\* pthread_rwlock_rdlock may return EDEADLK: the caller holds the write lock.
rdlock_deadlk(t) == rw_w = t

\* pthread_rwlock_wrlock may return EDEADLK: the caller holds a read or the write lock.
wrlock_deadlk(t) == rw_w = t \/ rw_r[t] > 0

\* pthread_rwlock_rdlock / pthread_rwlock_tryrdlock returning 0
rw_rdlock(t) ==
    /\ native_rd_free
    /\ rw_r' = [rw_r EXCEPT ![t] = @ + 1]
    /\ rw_w' = rw_w

\* pthread_rwlock_wrlock / pthread_rwlock_trywrlock returning 0
rw_wrlock(t) ==
    /\ native_wr_free
    /\ rw_w' = t
    /\ rw_r' = rw_r

\* RwLock::unlock: pthread_rwlock_unlock releases one lock of the caller; which
\* one, when a native lock that does not follow POSIX gave it two, is not defined.
rw_unlock(t) ==
    \/ rw_w = t /\ rw_w' = NoThread /\ rw_r' = rw_r
    \/ rw_r[t] > 0 /\ rw_r' = [rw_r EXCEPT ![t] = @ - 1] /\ rw_w' = rw_w

\* A native lock that does not follow POSIX (glibc before 2.25): it returns 0
\* for a read lock although the caller holds the write lock ...
rw_rdlock_held(t) ==
    /\ rw_w = t
    /\ rw_r' = [rw_r EXCEPT ![t] = @ + 1]
    /\ rw_w' = rw_w

\* ... and for a write lock although the caller, and nobody else, holds a lock.
rw_wrlock_held(t) ==
    /\ ~native_wr_free
    /\ rw_w \in {NoThread, t}
    /\ \A u \in RwThreads \ {t} : rw_r[u] = 0
    /\ IF rw_w = t
       THEN rw_r' = [rw_r EXCEPT ![t] = @ + 1] /\ rw_w' = rw_w
       ELSE rw_w' = t /\ rw_r' = rw_r

\* ----------------------------------------------------------------- RwLock

LiveReadGuards == {t \in RwThreads : rguards[t] > 0}
LiveWriteGuards == {t \in RwThreads : wguard[t]}

\* An unwinding thread starts new lock operations only from destructors that run
\* once its own guards are gone (a second panic during an unwind aborts the process).
CanCall(t) == Running(t) /\ (panicking[t] => (rguards[t] = 0 /\ ~wguard[t]))

Res(t, v) == result' = [result EXCEPT ![t] = v]

Goto(t, l) == pc' = [pc EXCEPT ![t] = l]

\* panic!(..) in a thread that is not yet unwinding
StartPanic(t) ==
    /\ panicking' = [panicking EXCEPT ![t] = TRUE]
    /\ crashed' = IF wguard[t] THEN crashed \cup {t} ELSE crashed
    /\ rcrashed' = IF rguards[t] > 0 /\ ~wguard[t]
                   THEN rcrashed \cup {t} ELSE rcrashed

\* RwLock::read: the call, blocking in pthread_rwlock_rdlock
ReadCall(t) ==
    /\ CanCall(t)
    /\ rguards[t] < MaxReadGuards
    /\ Goto(t, "read") /\ Res(t, "none")
    /\ UNCHANGED <<panicking, failed, token, crashed, rvars>>

\* sys read: r == 0
ReadGrant(t) ==
    /\ pc[t] = "read"
    /\ rw_rdlock(t)
    /\ Goto(t, "read_chk")
    /\ UNCHANGED <<panicking, result, failed, token, crashed,
                   write_locked, num_readers, rguards, wguard, mid, rcrashed>>

\* sys read: r == EDEADLK: panic without unlocking
ReadDeadlk(t) ==
    /\ pc[t] = "read"
    /\ rdlock_deadlk(t)
    /\ StartPanic(t)
    /\ Goto(t, "run")
    /\ UNCHANGED <<result, failed, token, rwcore>>

\* read trusts r == 0 and does not look at write_locked.
ReadCheck_unchecked(t) ==
    /\ pc[t] = "read_chk"
    /\ num_readers' = num_readers + 1
    /\ rguards' = [rguards EXCEPT ![t] = @ + 1]
    /\ Res(t, borrow_result)
    /\ UNCHANGED <<panicking, crashed, rcrashed, rw_w, rw_r>>
    /\ Goto(t, "run")
    /\ UNCHANGED <<failed, token, write_locked, wguard, mid>>

\* sys read after r == 0: the write_locked check, fetch_add, the guard; then
\* RwLock::read maps poison.borrow() over it.
ReadCheck(t) ==
    /\ pc[t] = "read_chk"
    /\ IF write_locked
       THEN /\ rw_unlock(t)
            /\ StartPanic(t)
            /\ UNCHANGED <<result, num_readers, rguards>>
       ELSE /\ num_readers' = num_readers + 1
            /\ rguards' = [rguards EXCEPT ![t] = @ + 1]
            /\ Res(t, borrow_result)
            /\ UNCHANGED <<panicking, crashed, rcrashed, rw_w, rw_r>>
    /\ Goto(t, "run")
    /\ UNCHANGED <<failed, token, write_locked, wguard, mid>>

\* RwLock::try_read: pthread_rwlock_tryrdlock; r != 0 gives None, WouldBlock
TryRead(t) ==
    /\ CanCall(t)
    /\ rguards[t] < MaxReadGuards
    /\ IF native_rd_free
       THEN rw_rdlock(t) /\ Goto(t, "try_read_chk") /\ Res(t, "none")
       ELSE UNCHANGED <<rw_w, rw_r, pc>> /\ Res(t, "WouldBlock")
    /\ UNCHANGED <<panicking, failed, token, crashed,
                   write_locked, num_readers, rguards, wguard, mid, rcrashed>>

\* try_read gives up without undoing the native acquisition.
TryReadCheck_keeps_native(t) ==
    /\ pc[t] = "try_read_chk"
    /\ IF write_locked
       THEN /\ UNCHANGED <<rw_w, rw_r>>
            /\ Res(t, "WouldBlock")
            /\ UNCHANGED <<num_readers, rguards>>
       ELSE /\ num_readers' = num_readers + 1
            /\ rguards' = [rguards EXCEPT ![t] = @ + 1]
            /\ Res(t, borrow_result)
            /\ UNCHANGED <<rw_w, rw_r>>
    /\ Goto(t, "run")
    /\ UNCHANGED <<panicking, failed, token, crashed, write_locked, wguard, mid, rcrashed>>

\* sys try_read after r == 0
TryReadCheck(t) ==
    /\ pc[t] = "try_read_chk"
    /\ IF write_locked
       THEN /\ rw_unlock(t)
            /\ Res(t, "WouldBlock")
            /\ UNCHANGED <<num_readers, rguards>>
       ELSE /\ num_readers' = num_readers + 1
            /\ rguards' = [rguards EXCEPT ![t] = @ + 1]
            /\ Res(t, borrow_result)
            /\ UNCHANGED <<rw_w, rw_r>>
    /\ Goto(t, "run")
    /\ UNCHANGED <<panicking, failed, token, crashed, write_locked, wguard, mid, rcrashed>>

\* RwLock::write: the call, blocking in pthread_rwlock_wrlock
WriteCall(t) ==
    /\ CanCall(t)
    /\ Goto(t, "write") /\ Res(t, "none")
    /\ UNCHANGED <<panicking, failed, token, crashed, rvars>>

\* Mutant of WriteGrant: the non-blocking native call is used and its EBUSY is
\* not looked at.
WriteGrant_trywrlock(t) ==
    /\ pc[t] = "write"
    /\ IF native_wr_free THEN rw_wrlock(t) ELSE UNCHANGED <<rw_w, rw_r>>
    /\ Goto(t, "write_chk")
    /\ UNCHANGED <<panicking, result, failed, token, crashed,
                   write_locked, num_readers, rguards, wguard, mid, rcrashed>>

\* sys write: r == 0
WriteGrant(t) ==
    /\ pc[t] = "write"
    /\ rw_wrlock(t)
    /\ Goto(t, "write_chk")
    /\ UNCHANGED <<panicking, result, failed, token, crashed,
                   write_locked, num_readers, rguards, wguard, mid, rcrashed>>

\* sys write: r == EDEADLK: panic without unlocking
WriteDeadlk(t) ==
    /\ pc[t] = "write"
    /\ wrlock_deadlk(t)
    /\ StartPanic(t)
    /\ Goto(t, "run")
    /\ UNCHANGED <<result, failed, token, rwcore>>

\* write looks at write_locked only, not at num_readers.
WriteCheck_ignores_readers(t) ==
    /\ pc[t] = "write_chk"
    /\ IF write_locked
       THEN /\ rw_unlock(t)
            /\ StartPanic(t)
            /\ UNCHANGED <<result, token, write_locked, wguard>>
       ELSE /\ write_locked' = TRUE
            /\ wguard' = [wguard EXCEPT ![t] = TRUE]
            /\ token' = [token EXCEPT ![t] = borrow_token(t)]
            /\ Res(t, borrow_result)
            /\ UNCHANGED <<panicking, crashed, rcrashed, rw_w, rw_r>>
    /\ Goto(t, "run")
    /\ UNCHANGED <<failed, num_readers, rguards, mid>>

\* sys write after r == 0: the write_locked and num_readers checks, the flag, the
\* guard; then RwLock::write maps poison.borrow() over it.
WriteCheck(t) ==
    /\ pc[t] = "write_chk"
    /\ IF write_locked \/ num_readers # 0
       THEN /\ rw_unlock(t)
            /\ StartPanic(t)
            /\ UNCHANGED <<result, token, write_locked, wguard>>
       ELSE /\ write_locked' = TRUE
            /\ wguard' = [wguard EXCEPT ![t] = TRUE]
            /\ token' = [token EXCEPT ![t] = borrow_token(t)]
            /\ Res(t, borrow_result)
            /\ UNCHANGED <<panicking, crashed, rcrashed, rw_w, rw_r>>
    /\ Goto(t, "run")
    /\ UNCHANGED <<failed, num_readers, rguards, mid>>

\* Mutant of TryWrite: try_write goes through the blocking write path, which
\* panics on a lock the caller holds.
TryWrite_via_write(t) ==
    /\ CanCall(t)
    /\ IF native_wr_free
       THEN rw_wrlock(t) /\ Goto(t, "try_write_chk") /\ Res(t, "none")
            /\ UNCHANGED <<panicking, crashed, rcrashed>>
       ELSE UNCHANGED <<rw_w, rw_r, pc>> /\ Res(t, "none") /\ StartPanic(t)
    /\ UNCHANGED <<failed, token, write_locked, num_readers, rguards, wguard, mid>>

\* RwLock::try_write: pthread_rwlock_trywrlock; r != 0 gives None, WouldBlock
TryWrite(t) ==
    /\ CanCall(t)
    /\ IF native_wr_free
       THEN rw_wrlock(t) /\ Goto(t, "try_write_chk") /\ Res(t, "none")
       ELSE UNCHANGED <<rw_w, rw_r, pc>> /\ Res(t, "WouldBlock")
    /\ UNCHANGED <<panicking, failed, token, crashed,
                   write_locked, num_readers, rguards, wguard, mid, rcrashed>>

\* sys try_write after r == 0
TryWriteCheck(t) ==
    /\ pc[t] = "try_write_chk"
    /\ IF write_locked \/ num_readers # 0
       THEN /\ rw_unlock(t)
            /\ Res(t, "WouldBlock")
            /\ UNCHANGED <<token, write_locked, wguard>>
       ELSE /\ write_locked' = TRUE
            /\ wguard' = [wguard EXCEPT ![t] = TRUE]
            /\ token' = [token EXCEPT ![t] = borrow_token(t)]
            /\ Res(t, borrow_result)
            /\ UNCHANGED <<rw_w, rw_r>>
    /\ Goto(t, "run")
    /\ UNCHANGED <<panicking, failed, crashed, num_readers, rguards, mid, rcrashed>>

\* Mutant of ReadGuardDrop: the read guard reports the unwind to the poison flag,
\* as the write guard does.
ReadGuardDrop_poisoning(t) ==
    /\ Running(t)
    /\ rguards[t] > 0
    /\ failed' = (failed \/ panicking[t])
    /\ num_readers' = num_readers - 1
    /\ rguards' = [rguards EXCEPT ![t] = @ - 1]
    /\ Goto(t, "rd_unlock") /\ Res(t, "none")
    /\ UNCHANGED <<panicking, token, crashed, rw_w, rw_r, write_locked, wguard, mid, rcrashed>>

\* The read guard is dropped without the fetch_sub on num_readers.
ReadGuardDrop_keeps_count(t) ==
    /\ Running(t)
    /\ rguards[t] > 0
    /\ num_readers' = num_readers
    /\ rguards' = [rguards EXCEPT ![t] = @ - 1]
    /\ Goto(t, "rd_unlock") /\ Res(t, "none")
    /\ UNCHANGED <<panicking, failed, token, crashed,
                   rw_w, rw_r, write_locked, wguard, mid, rcrashed>>

\* RwLockReadGuard has no Drop of its own; impl Drop for sys ReadGuard:
\* fetch_sub on num_readers ...
ReadGuardDrop(t) ==
    /\ Running(t)
    /\ rguards[t] > 0
    /\ num_readers' = num_readers - 1
    /\ rguards' = [rguards EXCEPT ![t] = @ - 1]
    /\ Goto(t, "rd_unlock") /\ Res(t, "none")
    /\ UNCHANGED <<panicking, failed, token, crashed,
                   rw_w, rw_r, write_locked, wguard, mid, rcrashed>>

\* ... then unlock
ReadUnlock(t) ==
    /\ pc[t] = "rd_unlock"
    /\ rw_unlock(t)
    /\ Goto(t, "run")
    /\ UNCHANGED <<panicking, result, failed, token, crashed,
                   write_locked, num_readers, rguards, wguard, mid, rcrashed>>

\* Mutant of WriteGuardDrop: the writer-held flag is cleared before the poison
\* flag is updated.
WriteGuardDrop_clears_first(t) ==
    /\ Running(t)
    /\ wguard[t]
    /\ panicking[t] \/ ~mid
    /\ done(t)
    /\ write_locked' = FALSE
    /\ wguard' = [wguard EXCEPT ![t] = FALSE]
    /\ Goto(t, "wr_clear") /\ Res(t, "none")
    /\ UNCHANGED <<panicking, token, crashed,
                   rw_w, rw_r, num_readers, rguards, mid, rcrashed>>

\* impl Drop for RwLockWriteGuard: poison.done(&self.poison) ...
\* (a thread that is not unwinding drops the guard once its update is complete)
WriteGuardDrop(t) ==
    /\ Running(t)
    /\ wguard[t]
    /\ panicking[t] \/ ~mid
    /\ done(t)
    /\ wguard' = [wguard EXCEPT ![t] = FALSE]
    /\ Goto(t, "wr_clear") /\ Res(t, "none")
    /\ UNCHANGED <<panicking, token, crashed,
                   rw_w, rw_r, write_locked, num_readers, rguards, mid, rcrashed>>

\* Mutant of WriteClear: the flag is left set.
WriteClear_keeps_flag(t) ==
    /\ pc[t] = "wr_clear"
    /\ Goto(t, "wr_unlock")
    /\ UNCHANGED <<panicking, result, failed, token, crashed, rvars>>

\* ... then impl Drop for sys WriteGuard: write_locked = false ...
WriteClear(t) ==
    /\ pc[t] = "wr_clear"
    /\ write_locked' = FALSE
    /\ Goto(t, "wr_unlock")
    /\ UNCHANGED <<panicking, result, failed, token, crashed,
                   rw_w, rw_r, num_readers, rguards, wguard, mid, rcrashed>>

\* ... then unlock
WriteUnlock(t) ==
    /\ pc[t] = "wr_unlock"
    /\ rw_unlock(t)
    /\ Goto(t, "run")
    /\ UNCHANGED <<panicking, result, failed, token, crashed,
                   write_locked, num_readers, rguards, wguard, mid, rcrashed>>

\* A writer starts to update the value through deref_mut (tests/rwlock.rs
\* test_rw_arc: `*lock = -1`) ...
WriteBegin(t) ==
    /\ Running(t)
    /\ wguard[t]
    /\ ~panicking[t]
    /\ ~mid
    /\ mid' = TRUE
    /\ Res(t, "none")
    /\ UNCHANGED <<pc, panicking, failed, token, crashed,
                   rw_w, rw_r, write_locked, num_readers, rguards, wguard, rcrashed>>

\* ... and completes the update (`*lock = tmp + 1`)
WriteEnd(t) ==
    /\ Running(t)
    /\ wguard[t]
    /\ ~panicking[t]
    /\ mid
    /\ mid' = FALSE
    /\ Res(t, "none")
    /\ UNCHANGED <<pc, panicking, failed, token, crashed,
                   rw_w, rw_r, write_locked, num_readers, rguards, wguard, rcrashed>>

\* The thread panics and starts to unwind; the unwind drops its guards.
RwPanic(t) ==
    /\ Running(t)
    /\ ~panicking[t]
    /\ StartPanic(t)
    /\ Res(t, "none")
    /\ UNCHANGED <<pc, failed, token, rwcore>>

\* The unwind is over: every guard of the thread has been dropped.
RwFinish(t) ==
    /\ Running(t)
    /\ panicking[t]
    /\ rguards[t] = 0 /\ ~wguard[t]
    /\ Goto(t, "dead") /\ Res(t, "none")
    /\ UNCHANGED <<panicking, failed, token, crashed, rvars>>

\* What the RwLock operations leave alone.
RwFrame == UNCHANGED <<owner, holds, waiters, cvars, bvars, xvars, ivars>>

\* Any interleaving of the operations of one RwLock.
NextRw ==
    \E t \in RwThreads :
        \/ ReadCall(t) /\ RwFrame
        \/ ReadGrant(t) /\ RwFrame
        \/ ReadDeadlk(t) /\ RwFrame
        \/ ReadCheck(t) /\ RwFrame
        \/ TryRead(t) /\ RwFrame
        \/ TryReadCheck(t) /\ RwFrame
        \/ WriteCall(t) /\ RwFrame
        \/ WriteGrant(t) /\ RwFrame
        \/ WriteDeadlk(t) /\ RwFrame
        \/ WriteCheck(t) /\ RwFrame
        \/ TryWrite(t) /\ RwFrame
        \/ TryWriteCheck(t) /\ RwFrame
        \/ ReadGuardDrop(t) /\ RwFrame
        \/ ReadUnlock(t) /\ RwFrame
        \/ WriteGuardDrop(t) /\ RwFrame
        \/ WriteClear(t) /\ RwFrame
        \/ WriteUnlock(t) /\ RwFrame
        \/ WriteBegin(t) /\ RwFrame
        \/ WriteEnd(t) /\ RwFrame
        \/ RwPanic(t) /\ RwFrame
        \/ RwFinish(t) /\ RwFrame

SpecRw == Init /\ [][NextRw]_vars

\* ----------------------------------------------------------- RwLock claims

\* A step in which read() or write() hands t a guard
ReadReturns(t) == ReadCheck(t) /\ rguards'[t] = rguards[t] + 1
WriteReturns(t) == WriteCheck(t) /\ wguard'[t]

\* C5: once a thread that panicked while holding the write guard has dropped it,
\* the poison flag is set and stays set; the dead writer leaves neither the native
\* lock nor the writer-held flag behind; every read() and write() that returns
\* after that returns Poisoned, with its guard.
C5_RwWritePoisoning ==
    /\ [](\A t \in crashed : ~wguard[t] => failed)
    /\ [](\A t \in RwThreads : pc[t] = "dead" => (rw_w # t /\ rw_r[t] = 0))
    /\ []((\A t \in RwThreads : pc[t] \in {"run", "dead"} /\ ~wguard[t])
            => ~write_locked)
    /\ [][failed => failed']_vars
    /\ [][\A u \in RwThreads :
            ((pc[u] = "read_chk" \/ pc[u] = "write_chk")
                /\ (ReadCheck(u) \/ WriteCheck(u))
                /\ \E t \in crashed : ~wguard[t])
            => /\ result'[u] = "Poisoned"
               /\ (ReadReturns(u) \/ WriteReturns(u))]_vars

\* C5 witness: a thread that panicked holding the write guard is dead, and another
\* thread holds a guard that came with a Poisoned error.
C5_Witness ==
    \E t \in crashed, u \in RwThreads :
        /\ pc[t] = "dead"
        /\ result[u] = "Poisoned"
        /\ rguards[u] > 0 \/ wguard[u]

\* C6: the poison flag is only ever set after a panic under a write guard: a
\* reader's unwind drops its read guard, releases its read lock and leaves the
\* flag alone, and as long as no writer has panicked every read() and write()
\* that returns, returns Ok with its guard.
C6_ReadPanicNoPoison ==
    /\ [](failed => crashed # {})
    /\ [](\A t \in RwThreads : pc[t] = "dead" => (rw_r[t] = 0 /\ rguards[t] = 0))
    /\ [][\A t \in RwThreads : ReadGuardDrop(t) => failed' = failed]_vars
    /\ [][\A u \in RwThreads :
            ((pc[u] = "read_chk" \/ pc[u] = "write_chk")
                /\ (ReadCheck(u) \/ WriteCheck(u))
                /\ crashed = {})
            => /\ result'[u] = "Ok"
               /\ (ReadReturns(u) \/ WriteReturns(u))]_vars

\* C6 witness: a thread that panicked holding only a read guard is dead, the lock
\* is not poisoned, and another thread holds a guard that came with Ok.
C6_Witness ==
    \E t \in rcrashed, u \in RwThreads :
        /\ pc[t] = "dead"
        /\ ~failed
        /\ result[u] = "Ok"
        /\ rguards[u] > 0 \/ wguard[u]

\* C7: try_write called while a read guard is live (the caller's or another
\* thread's) returns WouldBlock in that one step: no panic, no write guard, and
\* every read guard and the reader bookkeeping stay as they were.
C7_TryWriteWouldBlock ==
    [][\A t \in RwThreads :
        (CanCall(t) /\ TryWrite(t) /\ LiveReadGuards # {})
        => /\ result'[t] = "WouldBlock"
           /\ pc'[t] = "run"
           /\ UNCHANGED <<panicking, rguards, wguard, num_readers,
                          write_locked, rw_w, rw_r>>]_vars

\* C7 witness: a thread that holds a read guard has just been told WouldBlock
\* (only its own try_write can have said so: no writer holds the lock).
C7_Witness ==
    \E t \in RwThreads :
        result[t] = "WouldBlock" /\ rguards[t] > 0 /\ ~panicking[t]

\* C8: there is at most one live write guard, and none while a read guard is
\* live; every live guard is backed by a native lock of its thread; so a live
\* read guard sees a value in the middle of an update only if the writer
\* panicked in the middle of it, which the poison flag records.
C8_GuardExclusion ==
    /\ Cardinality(LiveWriteGuards) <= 1
    /\ LiveWriteGuards # {} => LiveReadGuards = {}
    /\ \A t \in RwThreads : wguard[t] => rw_w = t
    /\ \A t \in RwThreads : rguards[t] <= rw_r[t]
    /\ (LiveReadGuards # {} /\ mid) => failed

\* C8 witness: a writer holds the write guard in the middle of its update while
\* another thread is blocked in read().
C8_Witness ==
    \E t, u \in RwThreads :
        wguard[t] /\ mid /\ pc[u] = "read" /\ ~panicking[t]

\* ---------------------------------------------------------------- Barrier

\* The threads that use the barrier: as many as it was built for.
BThreads == 1..num_threads

\* The round of the next call to arrive: arrivals are grouped N at a time.
round_of_next == arrivals \div num_threads

\* Barrier::wait is called; the caller goes for the internal mutex.
BWaitCall(t) ==
    /\ Running(t)
    /\ t \in BThreads
    /\ calls[t] < MaxRounds
    /\ calls' = [calls EXCEPT ![t] = @ + 1]
    /\ b_ret' = [b_ret EXCEPT ![t] = "none"]
    /\ spur' = [spur EXCEPT ![t] = FALSE]
    /\ pc' = [pc EXCEPT ![t] = "b_lock"]
    /\ UNCHANGED <<result, owner, failed, holds, token, waiters>>
    /\ UNCHANGED <<num_threads, count, generation_id, local_gen, arrivals,
                   my_round, leaders, followers>>

\* lock().lock().unwrap(); local_gen = generation_id; count += 1; the branch.
BArrive(t) ==
    /\ pc[t] = "b_lock"
    /\ sys_lock(t)
    /\ borrow_result = "Ok"
    /\ holds' = [holds EXCEPT ![t] = TRUE]
    /\ token' = [token EXCEPT ![t] = borrow_token(t)]
    /\ result' = [result EXCEPT ![t] = borrow_result]
    /\ local_gen' = [local_gen EXCEPT ![t] = generation_id]
    /\ count' = count + 1
    /\ arrivals' = arrivals + 1
    /\ my_round' = [my_round EXCEPT ![t] = round_of_next]
    /\ pc' = [pc EXCEPT ![t] = IF count + 1 < num_threads THEN "b_loop" ELSE "b_lead"]
    /\ UNCHANGED <<failed, waiters>>
    /\ UNCHANGED <<num_threads, generation_id, b_ret, calls, leaders, followers, spur>>

\* Mutant of keep_waiting: the generations are compared by order, not for
\* difference.
keep_waiting_ordered(t) == local_gen[t] >= generation_id /\ count < num_threads

\* The condition of the follower's while loop.
keep_waiting(t) == local_gen[t] = generation_id /\ count < num_threads

\* The while loop's test: enter cvar.wait(lock), or leave the loop.
BLoop(t) ==
    /\ pc[t] = "b_loop"
    /\ IF keep_waiting(t)
       THEN /\ sys_wait_block(t)
            /\ holds' = [holds EXCEPT ![t] = FALSE]
            /\ result' = [result EXCEPT ![t] = "none"]
            /\ pc' = [pc EXCEPT ![t] = "b_wait"]
       ELSE /\ pc' = [pc EXCEPT ![t] = "b_exit"]
            /\ UNCHANGED <<owner, waiters, holds, result>>
    /\ UNCHANGED <<failed, token, bvars>>

\* A spurious wakeup of a waiter of the barrier's condition variable.
BSpuriousWake(w) ==
    /\ pc[w] = "b_wait"
    /\ sys_notify_one(w)
    /\ pc' = [pc EXCEPT ![w] = "b_relock"]
    /\ spur' = [spur EXCEPT ![w] = TRUE]
    /\ UNCHANGED <<result, owner, failed, holds, token>>
    /\ UNCHANGED <<num_threads, count, generation_id, local_gen, b_ret, calls,
                   arrivals, my_round, leaders, followers>>

\* An `if` in place of the `while`: a woken follower leaves without re-checking.
BRelock_no_recheck(t) ==
    /\ pc[t] = "b_relock"
    /\ sys_wait_relock(t)
    /\ repoison = "Ok"
    /\ holds' = [holds EXCEPT ![t] = TRUE]
    /\ result' = [result EXCEPT ![t] = repoison]
    /\ pc' = [pc EXCEPT ![t] = "b_exit"]
    /\ UNCHANGED <<failed, token, waiters, bvars>>

\* cvar.wait(lock).unwrap() returns with the mutex; back to the loop's test.
BRelock(t) ==
    /\ pc[t] = "b_relock"
    /\ sys_wait_relock(t)
    /\ repoison = "Ok"
    /\ holds' = [holds EXCEPT ![t] = TRUE]
    /\ result' = [result EXCEPT ![t] = repoison]
    /\ pc' = [pc EXCEPT ![t] = "b_loop"]
    /\ UNCHANGED <<failed, token, waiters, bvars>>

\* The end of wait(): the guard is dropped and the call returns `leader`.
BReturn(t, leader) ==
    /\ done(t)
    /\ sys_unlock(t)
    /\ holds' = [holds EXCEPT ![t] = FALSE]
    /\ result' = [result EXCEPT ![t] = "none"]
    /\ b_ret' = [b_ret EXCEPT ![t] = IF leader THEN "leader" ELSE "follower"]
    /\ leaders' = IF leader THEN [leaders EXCEPT ![my_round[t]] = @ + 1] ELSE leaders
    /\ followers' = IF leader THEN followers ELSE [followers EXCEPT ![my_round[t]] = @ + 1]
    /\ pc' = [pc EXCEPT ![t] = "run"]
    /\ UNCHANGED <<token, waiters>>
    /\ UNCHANGED <<num_threads, count, generation_id, local_gen, calls, arrivals,
                   my_round, spur>>

\* BarrierWaitResult(false)
BFollowReturn(t) ==
    /\ pc[t] = "b_exit"
    /\ BReturn(t, FALSE)

\* The leader forgets to reset the count.
BLead_no_reset(t) ==
    /\ pc[t] = "b_lead"
    /\ generation_id' = (generation_id + 1) % GenModulus
    /\ waiters' = {}
    /\ pc' = [u \in Threads |-> IF u = t THEN "b_lead_ret"
                                ELSE IF u \in waiters THEN "b_relock" ELSE pc[u]]
    /\ UNCHANGED <<result, owner, failed, holds, token>>
    /\ UNCHANGED <<num_threads, count, local_gen, b_ret, calls, arrivals, my_round,
                   leaders, followers, spur>>

\* The leader forgets notify_all().
BLead_no_notify(t) ==
    /\ pc[t] = "b_lead"
    /\ count' = 0
    /\ generation_id' = (generation_id + 1) % GenModulus
    /\ pc' = [pc EXCEPT ![t] = "b_lead_ret"]
    /\ UNCHANGED <<result, owner, failed, holds, token, waiters>>
    /\ UNCHANGED <<num_threads, local_gen, b_ret, calls, arrivals, my_round,
                   leaders, followers, spur>>

\* Mutant of BLead: the generation id is advanced by two.
BLead_double_advance(t) ==
    /\ pc[t] = "b_lead"
    /\ count' = 0
    /\ generation_id' = (generation_id + 2) % GenModulus
    /\ waiters' = {}
    /\ pc' = [u \in Threads |-> IF u = t THEN "b_lead_ret"
                                ELSE IF u \in waiters THEN "b_relock" ELSE pc[u]]
    /\ UNCHANGED <<result, owner, failed, holds, token>>
    /\ UNCHANGED <<num_threads, local_gen, b_ret, calls, arrivals, my_round,
                   leaders, followers, spur>>

\* The last to arrive: count = 0; generation_id wrapping_add 1; notify_all().
BLead(t) ==
    /\ pc[t] = "b_lead"
    /\ count' = 0
    /\ generation_id' = (generation_id + 1) % GenModulus
    /\ waiters' = {}
    /\ pc' = [u \in Threads |-> IF u = t THEN "b_lead_ret"
                                ELSE IF u \in waiters THEN "b_relock" ELSE pc[u]]
    /\ UNCHANGED <<result, owner, failed, holds, token>>
    /\ UNCHANGED <<num_threads, local_gen, b_ret, calls, arrivals, my_round,
                   leaders, followers, spur>>

\* BarrierWaitResult(true)
BLeadReturn(t) ==
    /\ pc[t] = "b_lead_ret"
    /\ BReturn(t, TRUE)

\* What Barrier::wait leaves alone.
BFrame == UNCHANGED <<panicking, crashed, cvars, rvars, xvars, ivars>>

\* Any interleaving of wait() calls on one Barrier by the threads it was built for.
NextBarrier ==
    \E t \in Threads :
        \/ BWaitCall(t) /\ BFrame
        \/ BArrive(t) /\ BFrame
        \/ BLoop(t) /\ BFrame
        \/ BSpuriousWake(t) /\ BFrame
        \/ BRelock(t) /\ BFrame
        \/ BFollowReturn(t) /\ BFrame
        \/ BLead(t) /\ BFrame
        \/ BLeadReturn(t) /\ BFrame

\* A barrier for 1..NumThreads threads.
InitAnyBarrier ==
    /\ InitMutex /\ InitCounter /\ InitRwLock /\ InitCondvar /\ InitDone
    /\ \E n \in 1..NumThreads : InitBarrier(n)

SpecBarrier == InitAnyBarrier /\ [][NextBarrier]_vars

\* The steps of wait() that take the barrier's mutex.
BAcquire(t) == (BArrive(t) \/ BRelock(t)) /\ BFrame

\* The steps of wait() that run with the mutex held.
BProceed(t) ==
    (BLoop(t) \/ BFollowReturn(t) \/ BLead(t) \/ BLeadReturn(t)) /\ BFrame

\* Fair scheduling: a thread holding the mutex keeps running, and a thread
\* that can take the mutex again and again gets it eventually. Nothing obliges
\* a thread to call wait(), nor a spurious wakeup to happen.
SpecBarrierFair ==
    /\ InitAnyBarrier
    /\ [][NextBarrier]_vars
    /\ \A t \in Threads : WF_vars(BProceed(t)) /\ SF_vars(BAcquire(t))

\* ---------------------------------------------------------- Barrier claims

\* t's wait() has returned and t has not called again.
Returned(t) == b_ret[t] # "none"

\* Every thread has made all its calls and they all returned.
BAllDone == \A t \in BThreads : calls[t] = MaxRounds /\ Returned(t)

\* C9: of the N wait() calls of a round, at most one returns as the leader and
\* at most N-1 return as followers at any time, and once all N have returned
\* exactly one has returned true and N-1 have returned false.
C9_UniqueLeader ==
    \A r \in 0..(MaxRounds - 1) :
        /\ leaders[r] <= 1
        /\ followers[r] <= num_threads - 1
        /\ BAllDone => (leaders[r] = 1 /\ followers[r] = num_threads - 1)

\* Two rounds of a barrier for several threads ran to the end.
C9_Witness ==
    /\ num_threads = NumThreads
    /\ BAllDone
    /\ leaders[MaxRounds - 1] = 1
    /\ followers[MaxRounds - 1] = num_threads - 1

\* C10: a wait() call that has returned belongs to a round all of whose N
\* calls have arrived, whatever spurious wakeups and re-entries happened.
C10_HoldsBack ==
    \A t \in BThreads :
        Returned(t) => arrivals >= (my_round[t] + 1) * num_threads

\* A follower of the first round returned after a spurious wakeup while a
\* fast thread was already inside wait() for the next round.
C10_Witness ==
    \E t, u \in BThreads :
        /\ b_ret[t] = "follower" /\ my_round[t] = 0 /\ spur[t]
        /\ pc[u] \in {"b_loop", "b_wait", "b_relock"} /\ my_round[u] = 1
\* ------------------------------------------------------- condvar programs

\* The threads blocked inside the native wait, not yet woken.
Waiting == {u \in Threads : pc[u] = "cv_wait"}

\* Condvar::notify_one / notify_all while the condvar has no waiter.
NotifyNone(t) ==
    /\ Running(t)
    /\ waiters = {}
    /\ UNCHANGED <<tvars, mvars>>

\* What the Mutex operations of the condvar programs leave alone.
CvQuiet == UNCHANGED <<cvars, rvars, bvars, xvars, ivars>>

\* A notify was issued for the threads of S.
CvSignal(S) ==
    /\ signalled' = [u \in Threads |-> signalled[u] \/ u \in S]
    /\ missed' = (missed \/ Waiting = {})
    /\ UNCHANGED <<cvars, rvars, bvars, xprog, ivars>>

\* The barrier's state without the history of spurious wakeups.
bcore == <<num_threads, count, generation_id, local_gen, b_ret, calls, arrivals,
           my_round, leaders, followers>>

\* t was woken spuriously.
CvSpurious(t) ==
    /\ spur' = [spur EXCEPT ![t] = TRUE]
    /\ UNCHANGED <<cvars, rvars, bcore, xvars, ivars>>

\* t's wait is over.
CvReturned(t) ==
    /\ signalled' = [signalled EXCEPT ![t] = FALSE]
    /\ spur' = [spur EXCEPT ![t] = FALSE]
    /\ UNCHANGED <<cvars, rvars, bcore, xprog, missed, ivars>>

\* The threads a notify_one is meant for: the one it wakes, or the only one waiting.
OneTarget == {u \in Waiting : pc'[u] # "cv_wait" \/ Waiting = {u}}

\* Any interleaving of lock, unlock, panic, wait and notify on one Mutex and
\* one Condvar, with the history of the notifications. No thread locks the
\* mutex while it holds its guard (that is a self-deadlock).
NextCv ==
    \E t \in CvThreads :
        \/ ~holds[t] /\ LockCall(t) /\ CvQuiet
        \/ LockReturn(t) /\ CvQuiet
        \/ GuardDrop(t) /\ CvQuiet
        \/ GuardUnlock(t) /\ CvQuiet
        \/ Panic(t) /\ CvQuiet
        \/ Finish(t) /\ CvQuiet
        \/ Wait(t) /\ CvQuiet
        \/ NotifyOne(t) /\ CvSignal(OneTarget)
        \/ NotifyAll(t) /\ CvSignal(Waiting)
        \/ NotifyNone(t) /\ CvSignal(Waiting)
        \/ SpuriousWake(t) /\ CvSpurious(t)
        \/ WaitReturn(t) /\ CvReturned(t)

SpecCv == Init /\ [][NextCv]_vars

\* Guards are scoped, so a thread that holds the mutex lets go of it, and a
\* woken waiter that can take the mutex again and again gets it eventually.
\* Nothing obliges a thread to lock, wait or notify, nor a spurious wakeup to happen.
CvFairness ==
    \A t \in CvThreads :
        /\ WF_vars(GuardDrop(t) /\ CvQuiet)
        /\ WF_vars(GuardUnlock(t) /\ CvQuiet)
        /\ SF_vars(WaitReturn(t) /\ CvReturned(t))

SpecCvFair == SpecCv /\ CvFairness

\* ------------------------------------------- Condvar: the wait variants

\* The predicates the callers pass: |started| !*started, or |_| true.
Predicates == {"not_started", "always"}

\* condition(&mut *guard)
condition(t) == IF pred[t] = "always" THEN TRUE ELSE ~started

\* `*started = true` through the guard.
SetStarted(t) ==
    /\ Running(t)
    /\ holds[t]
    /\ ~started
    /\ started' = TRUE
    /\ UNCHANGED <<tvars, mvars, op, pred, now, start, dur, deadline, timed_out>>

\* The monotonic clock advances.
Tick ==
    /\ now < MaxTime
    /\ now' = now + 1
    /\ UNCHANGED <<tvars, mvars, op, started, pred, start, dur, deadline, timed_out>>

\* t leaves the wait variant it is in.
Leave(t, r) ==
    /\ pc' = [pc EXCEPT ![t] = "run"]
    /\ result' = [result EXCEPT ![t] = r]
    /\ op' = [op EXCEPT ![t] = "none"]
    /\ pred' = [pred EXCEPT ![t] = "none"]
    /\ start' = [start EXCEPT ![t] = 0]
    /\ dur' = [dur EXCEPT ![t] = 0]
    /\ deadline' = [deadline EXCEPT ![t] = 0]

\* Condvar::wait_while is called with a guard and a predicate.
WaitWhileCall(t, p) ==
    /\ Running(t)
    /\ holds[t]
    /\ op[t] = "none"
    /\ op' = [op EXCEPT ![t] = "wait_while"]
    /\ pred' = [pred EXCEPT ![t] = p]
    /\ pc' = [pc EXCEPT ![t] = "ww_test"]
    /\ result' = [result EXCEPT ![t] = "none"]
    /\ UNCHANGED <<panicking, mvars, started, now, start, dur, deadline, timed_out>>

\* while condition(&mut *guard) { guard = self.wait(guard)?; } Ok(guard)
WaitWhileTest(t) ==
    /\ pc[t] = "ww_test"
    /\ IF condition(t)
       THEN /\ sys_wait_block(t)
            /\ holds' = [holds EXCEPT ![t] = FALSE]
            /\ pc' = [pc EXCEPT ![t] = "cv_wait"]
            /\ UNCHANGED <<result, op, pred, start, dur, deadline>>
       ELSE /\ Leave(t, "Ok")
            /\ UNCHANGED <<owner, waiters, holds>>
    /\ UNCHANGED <<panicking, failed, token, crashed, started, now, timed_out>>

\* An `if` in place of the `while`: Ok(guard) after the first wakeup.
WaitWhileRelock_no_recheck(t) ==
    /\ pc[t] = "cv_relock"
    /\ op[t] = "wait_while"
    /\ sys_wait_relock(t)
    /\ holds' = [holds EXCEPT ![t] = TRUE]
    /\ Leave(t, repoison)
    /\ UNCHANGED <<panicking, failed, token, waiters, crashed, started, now, timed_out>>

\* self.wait(guard)? returns inside wait_while: Poisoned leaves, Ok tests again.
WaitWhileRelock(t) ==
    /\ pc[t] = "cv_relock"
    /\ op[t] = "wait_while"
    /\ sys_wait_relock(t)
    /\ holds' = [holds EXCEPT ![t] = TRUE]
    /\ IF repoison = "Poisoned"
       THEN Leave(t, "Poisoned")
       ELSE /\ pc' = [pc EXCEPT ![t] = "ww_test"]
            /\ UNCHANGED <<result, op, pred, start, dur, deadline>>
    /\ UNCHANGED <<panicking, failed, token, waiters, crashed, started, now, timed_out>>

\* sys Condvar::wait_timeout gives up: the native deadline has passed.
sys_wait_expired(t) ==
    /\ now >= deadline[t]
    /\ t \in waiters
    /\ waiters' = waiters \ {t}

\* Condvar::wait_timeout is called: inner().wait_timeout(guard, dur) blocks.
WaitTimeoutCall(t, d) ==
    /\ Running(t)
    /\ holds[t]
    /\ op[t] = "none"
    /\ sys_wait_block(t)
    /\ holds' = [holds EXCEPT ![t] = FALSE]
    /\ op' = [op EXCEPT ![t] = "wait_timeout"]
    /\ deadline' = [deadline EXCEPT ![t] = now + d]
    /\ timed_out' = [timed_out EXCEPT ![t] = "no"]
    /\ pc' = [pc EXCEPT ![t] = "cv_wait"]
    /\ result' = [result EXCEPT ![t] = "none"]
    /\ UNCHANGED <<panicking, failed, token, crashed, started, pred, now, start, dur>>

\* The native timed wait ends by timeout: ok = false, timeout = !ok.
TimeoutWake(t) ==
    /\ pc[t] = "cv_wait"
    /\ op[t] \in {"wait_timeout", "wait_timeout_while"}
    /\ sys_wait_expired(t)
    /\ pc' = [pc EXCEPT ![t] = "cv_relock"]
    /\ timed_out' = [timed_out EXCEPT ![t] = "yes"]
    /\ UNCHANGED <<panicking, result, owner, failed, holds, token, crashed>>
    /\ UNCHANGED <<op, started, pred, now, start, dur, deadline>>

\* After a timeout the guard is handed back without the mutex being taken again.
WaitTimeoutReturn_no_relock(t) ==
    /\ pc[t] = "cv_relock"
    /\ op[t] = "wait_timeout"
    /\ IF timed_out[t] = "yes" THEN owner' = owner ELSE sys_wait_relock(t)
    /\ holds' = [holds EXCEPT ![t] = TRUE]
    /\ Leave(t, repoison)
    /\ UNCHANGED <<panicking, failed, token, waiters, crashed, started, now, timed_out>>

\* Condvar::wait_timeout returns: mutex re-acquired, repoison(), the indicator.
WaitTimeoutReturn(t) ==
    /\ pc[t] = "cv_relock"
    /\ op[t] = "wait_timeout"
    /\ sys_wait_relock(t)
    /\ holds' = [holds EXCEPT ![t] = TRUE]
    /\ Leave(t, repoison)
    /\ UNCHANGED <<panicking, failed, token, waiters, crashed, started, now, timed_out>>

\* Condvar::wait_timeout_while is called: let start = Instant::now().
WaitTimeoutWhileCall(t, d, p) ==
    /\ Running(t)
    /\ holds[t]
    /\ op[t] = "none"
    /\ op' = [op EXCEPT ![t] = "wait_timeout_while"]
    /\ pred' = [pred EXCEPT ![t] = p]
    /\ start' = [start EXCEPT ![t] = now]
    /\ dur' = [dur EXCEPT ![t] = d]
    /\ timed_out' = [timed_out EXCEPT ![t] = "none"]
    /\ pc' = [pc EXCEPT ![t] = "wtw_test"]
    /\ result' = [result EXCEPT ![t] = "none"]
    /\ UNCHANGED <<panicking, mvars, started, now, deadline>>

\* start.elapsed()
elapsed(t) == now - start[t]

\* dur.checked_sub(start.elapsed()): the time that remains (negative: None)
remaining(t) == dur[t] - elapsed(t)

\* The time left is looked at before the predicate.
WaitTimeoutWhileTest_time_first(t) ==
    /\ pc[t] = "wtw_test"
    /\ IF remaining(t) < 0
       THEN /\ Leave(t, "Ok")
            /\ timed_out' = [timed_out EXCEPT ![t] = "yes"]
            /\ UNCHANGED <<owner, waiters, holds>>
       ELSE IF ~condition(t)
       THEN /\ Leave(t, "Ok")
            /\ timed_out' = [timed_out EXCEPT ![t] = "no"]
            /\ UNCHANGED <<owner, waiters, holds>>
       ELSE /\ sys_wait_block(t)
            /\ holds' = [holds EXCEPT ![t] = FALSE]
            /\ deadline' = [deadline EXCEPT ![t] = now + remaining(t)]
            /\ timed_out' = [timed_out EXCEPT ![t] = "no"]
            /\ pc' = [pc EXCEPT ![t] = "cv_wait"]
            /\ UNCHANGED <<result, op, pred, start, dur>>
    /\ UNCHANGED <<panicking, failed, token, crashed, started, now>>

\* The loop body: the predicate, the time left, and the timed wait.
WaitTimeoutWhileTest(t) ==
    /\ pc[t] = "wtw_test"
    /\ IF ~condition(t)
       THEN /\ Leave(t, "Ok")
            /\ timed_out' = [timed_out EXCEPT ![t] = "no"]
            /\ UNCHANGED <<owner, waiters, holds>>
       ELSE IF remaining(t) < 0
       THEN /\ Leave(t, "Ok")
            /\ timed_out' = [timed_out EXCEPT ![t] = "yes"]
            /\ UNCHANGED <<owner, waiters, holds>>
       ELSE /\ sys_wait_block(t)
            /\ holds' = [holds EXCEPT ![t] = FALSE]
            /\ deadline' = [deadline EXCEPT ![t] = now + remaining(t)]
            /\ timed_out' = [timed_out EXCEPT ![t] = "no"]
            /\ pc' = [pc EXCEPT ![t] = "cv_wait"]
            /\ UNCHANGED <<result, op, pred, start, dur>>
    /\ UNCHANGED <<panicking, failed, token, crashed, started, now>>

\* self.wait_timeout(guard, timeout)?.0 returns inside wait_timeout_while:
\* Poisoned leaves with the indicator of this wait, Ok goes round the loop.
WaitTimeoutWhileRelock(t) ==
    /\ pc[t] = "cv_relock"
    /\ op[t] = "wait_timeout_while"
    /\ sys_wait_relock(t)
    /\ holds' = [holds EXCEPT ![t] = TRUE]
    /\ IF repoison = "Poisoned"
       THEN Leave(t, "Poisoned") /\ UNCHANGED timed_out
       ELSE /\ pc' = [pc EXCEPT ![t] = "wtw_test"]
            /\ timed_out' = [timed_out EXCEPT ![t] = "none"]
            /\ deadline' = [deadline EXCEPT ![t] = 0]
            /\ UNCHANGED <<result, op, pred, start, dur>>
    /\ UNCHANGED <<panicking, failed, token, waiters, crashed, started, now>>

\* What the wait variants leave alone.
TFrame == UNCHANGED <<cvars, rvars, bvars, signalled, missed, ivars>>

\* As in the tests, one thread calls the wait variants; the others lock, set
\* the flag, notify, wait plainly or panic.
IsWaiter(t) == t = 1

\* The steps of thread t in a program that uses every Condvar operation.
CvTStep(t) ==
    \/ ~holds[t] /\ LockCall(t) /\ CvQuiet
    \/ LockReturn(t) /\ CvQuiet
    \/ GuardDrop(t) /\ CvQuiet
    \/ GuardUnlock(t) /\ CvQuiet
    \/ Panic(t) /\ CvQuiet
    \/ Finish(t) /\ CvQuiet
    \/ SetStarted(t) /\ TFrame
    \/ NotifyOne(t) /\ CvQuiet
    \/ NotifyAll(t) /\ CvQuiet
    \/ Wait(t) /\ CvQuiet
    \/ op[t] = "none" /\ WaitReturn(t) /\ CvQuiet
    \/ IsWaiter(t) /\ (\E p \in Predicates : WaitWhileCall(t, p)) /\ TFrame
    \/ WaitWhileTest(t) /\ TFrame
    \/ WaitWhileRelock(t) /\ TFrame
    \/ IsWaiter(t) /\ (\E d \in 0..MaxDur : WaitTimeoutCall(t, d)) /\ TFrame
    \/ WaitTimeoutReturn(t) /\ TFrame
    \/ IsWaiter(t) /\ (\E d \in 0..MaxDur, p \in Predicates :
                            WaitTimeoutWhileCall(t, d, p)) /\ TFrame
    \/ WaitTimeoutWhileTest(t) /\ TFrame
    \/ WaitTimeoutWhileRelock(t) /\ TFrame

\* Any interleaving of the threads, the clock, timeouts and spurious wakeups.
NextCvT ==
    \/ \E t \in CvThreads : CvTStep(t)
    \/ \E t \in CvThreads : SpuriousWake(t) /\ CvQuiet
    \/ \E t \in CvThreads : TimeoutWake(t) /\ TFrame
    \/ Tick /\ TFrame

SpecCvT == Init /\ [][NextCvT]_vars

\* ------------------------------------- the wait variants, as the tests call them
\* tests/condvar.rs wait_while, wait_timeout_wait, wait_timeout_while_wait,
\* wait_timeout_while_instant_satisfy, wait_timeout_while_wake: the main thread
\* calls the wait variants, the spawned thread locks, sets the flag and notifies
\* (or panics). phase[t] names the call that gave t the guard it has in hand:
\* 0 lock or wait, 1 wait_while, 2 wait_timeout, 3 wait_timeout_while.

\* The threads of these tests: the main thread and the one it spawns.
WtThreads == {t \in CvThreads : t <= 2}

\* The step is a call of variant n by t, or (n = 0) the end of its guard.
LastCall(t, n) ==
    /\ phase' = [phase EXCEPT ![t] = n]
    /\ UNCHANGED <<data, tmp, cycles, rvars, bvars, signalled, missed, ivars>>

WtStep(t) ==
    \/ ~holds[t] /\ LockCall(t) /\ CvQuiet
    \/ LockReturn(t) /\ CvQuiet
    \/ GuardDrop(t) /\ LastCall(t, 0) /\ UNCHANGED xprog
    \/ GuardUnlock(t) /\ CvQuiet
    \/ Panic(t) /\ CvQuiet
    \/ Finish(t) /\ CvQuiet
    \/ SetStarted(t) /\ TFrame
    \/ NotifyOne(t) /\ CvQuiet
    \/ NotifyAll(t) /\ CvQuiet
    \/ IsWaiter(t) /\ (\E p \in Predicates : WaitWhileCall(t, p)) /\ LastCall(t, 1)
    \/ WaitWhileTest(t) /\ TFrame
    \/ WaitWhileRelock(t) /\ TFrame
    \/ IsWaiter(t) /\ (\E d \in 0..MaxDur : WaitTimeoutCall(t, d)) /\ LastCall(t, 2)
    \/ WaitTimeoutReturn(t) /\ TFrame
    \/ IsWaiter(t) /\ (\E d \in 0..MaxDur, p \in Predicates :
                            WaitTimeoutWhileCall(t, d, p)) /\ LastCall(t, 3)
    \/ WaitTimeoutWhileTest(t) /\ TFrame
    \/ WaitTimeoutWhileRelock(t) /\ TFrame

\* Any interleaving of the two threads, the clock, timeouts and spurious wakeups.
NextWt ==
    \/ \E t \in WtThreads : WtStep(t)
    \/ \E t \in WtThreads : SpuriousWake(t) /\ CvQuiet
    \/ \E t \in WtThreads : TimeoutWake(t) /\ TFrame
    \/ Tick /\ TFrame

SpecWt == Init /\ [][NextWt]_vars

\* ------------------------------------------------ the notify_all program
\* N threads increment a counter under the mutex and wait until it is 0 again;
\* the main thread, once the counter is N, sets it to 0 under the mutex and
\* calls notify_all. phase[t] is the thread's place in its program.

Waiters == 1..NumWaiters
Main == NumWaiters + 1

\* What the program leaves alone.
NaFrame == UNCHANGED <<tmp, cycles, rvars, bcore, xprog, missed, ivars>>

\* The step neither issues nor ends a wakeup.
NaQuiet == UNCHANGED <<signalled, spur>>

\* The steps that only move the thread inside Mutex or Condvar.
NaSame == UNCHANGED <<data, phase>> /\ NaFrame /\ NaQuiet

\* The step takes the thread to place n of its program.
NaPhase(t, n) ==
    phase' = [phase EXCEPT ![t] = n] /\ UNCHANGED data /\ NaFrame /\ NaQuiet

\* let mut cnt = m.lock().unwrap(); *cnt += 1; if *cnt == N { tx.send(()) }
\* while *cnt != 0 { cnt = c.wait(cnt).unwrap() } tx.send(()); and the guard drops
NaWaiterStep(t) ==
    \/ phase[t] = 0 /\ ~holds[t] /\ LockCall(t) /\ NaSame
    \/ phase[t] = 0 /\ holds[t] /\ Running(t)
         /\ data' = data + 1 /\ phase' = [phase EXCEPT ![t] = 1]
         /\ UNCHANGED <<tvars, mvars>> /\ NaFrame /\ NaQuiet
    \/ phase[t] = 1 /\ UNCHANGED <<tvars, mvars>> /\ NaPhase(t, 2)
    \/ phase[t] = 2 /\ data # 0 /\ Wait(t) /\ NaSame
    \/ phase[t] = 2 /\ data = 0 /\ holds[t] /\ Running(t)
         /\ UNCHANGED <<tvars, mvars>> /\ NaPhase(t, 3)
    \/ phase[t] = 3 /\ UNCHANGED <<tvars, mvars>> /\ NaPhase(t, 4)
    \/ phase[t] = 4 /\ GuardDrop(t) /\ NaPhase(t, 5)
    \/ GuardUnlock(t) /\ NaSame

\* The message sent by the thread that saw *cnt == N has arrived.
NaAllIn == data = NumWaiters /\ \A u \in Waiters : phase[u] >= 2

\* rx.recv(); let mut cnt = m.lock().unwrap(); *cnt = 0; c.notify_all(); drop(cnt)
\* for _ in 0..N { rx.recv().unwrap(); }
NaMainStep(t) ==
    \/ phase[t] = 0 /\ ~holds[t] /\ NaAllIn /\ LockCall(t) /\ NaSame
    \/ phase[t] = 0 /\ holds[t] /\ Running(t)
         /\ data' = 0 /\ phase' = [phase EXCEPT ![t] = 1]
         /\ UNCHANGED <<tvars, mvars>> /\ NaFrame /\ NaQuiet
    \/ phase[t] = 1 /\ (NotifyAll(t) \/ NotifyNone(t))
         /\ phase' = [phase EXCEPT ![t] = 2]
         /\ signalled' = [u \in Threads |-> signalled[u] \/ u \in Waiting]
         /\ UNCHANGED <<data, spur>> /\ NaFrame
    \/ phase[t] = 2 /\ GuardDrop(t) /\ NaPhase(t, 3)
    \/ GuardUnlock(t) /\ NaSame
    \/ phase[t] = 3 /\ Running(t) /\ ~holds[t]
         /\ \A u \in Waiters : phase[u] >= 4
         /\ UNCHANGED <<tvars, mvars>> /\ NaPhase(t, 4)

\* The steps that take the mutex.
NaAcquire(t) ==
    \/ LockReturn(t) /\ NaSame
    \/ WaitReturn(t)
         /\ signalled' = [signalled EXCEPT ![t] = FALSE]
         /\ spur' = [spur EXCEPT ![t] = FALSE]
         /\ UNCHANGED <<data, phase>> /\ NaFrame

NextNotifyAll ==
    \/ \E t \in Waiters : NaWaiterStep(t)
    \/ NaMainStep(Main)
    \/ \E t \in Waiters \cup {Main} : NaAcquire(t)
    \/ \E t \in Waiters :
         /\ SpuriousWake(t)
         /\ spur' = [spur EXCEPT ![t] = TRUE]
         /\ UNCHANGED <<data, phase, signalled>> /\ NaFrame

\* Every thread runs on, and a thread that can take the mutex again and again
\* gets it; spurious wakeups may or may not happen.
SpecNotifyAll ==
    /\ Init
    /\ [][NextNotifyAll]_vars
    /\ \A t \in Waiters : WF_vars(NaWaiterStep(t))
    /\ WF_vars(NaMainStep(Main))
    /\ \A t \in Waiters \cup {Main} : SF_vars(NaAcquire(t))

\* --------------------------------------------- the condvar poison program
\* tests/mutex.rs test_mutex_arc_condvar and test_arc_condvar_poison: the parents
\* lock the mutex and wait in a loop while the value is 1; the child, once the
\* parents are in, locks, calls notify_one and then either changes the value or
\* panics with the guard in hand. phase[t] is the thread's place in its program.

\* let mut lock = lock.lock().unwrap(); tx.send(());
\* while *lock == 1 { match cvar.wait(lock) { Ok(l) => lock = l, Err(..) => break } }
CpParentStep(t) ==
    \/ phase[t] = 0 /\ ~holds[t] /\ LockCall(t) /\ NaSame
    \/ phase[t] = 0 /\ holds[t] /\ Running(t)
         /\ UNCHANGED <<tvars, mvars>> /\ NaPhase(t, 1)
    \/ phase[t] = 1 /\ result[t] = "Ok" /\ data = 1 /\ Wait(t) /\ NaSame
    \/ phase[t] = 1 /\ result[t] = "Poisoned" /\ holds[t] /\ Running(t)
         /\ UNCHANGED <<tvars, mvars>> /\ NaPhase(t, 2)
    \/ phase[t] = 1 /\ result[t] = "Ok" /\ data # 1 /\ holds[t] /\ Running(t)
         /\ UNCHANGED <<tvars, mvars>> /\ NaPhase(t, 3)
    \/ phase[t] \in {2, 3} /\ GuardDrop(t) /\ NaPhase(t, 4)
    \/ GuardUnlock(t) /\ NaSame

\* rx.recv(); let _g = lock.lock().unwrap(); cvar.notify_one();
\* then `*lock = ...` (test_mutex_arc_condvar) or `panic!()` (test_arc_condvar_poison)
CpChildStep(t) ==
    \/ phase[t] = 0 /\ ~holds[t] /\ (\A u \in Waiters : phase[u] >= 1)
         /\ LockCall(t) /\ NaSame
    \/ phase[t] = 0 /\ holds[t] /\ (NotifyOne(t) \/ NotifyNone(t)) /\ NaPhase(t, 1)
    \/ phase[t] = 1 /\ Running(t)
         /\ data' = 0 /\ phase' = [phase EXCEPT ![t] = 2]
         /\ UNCHANGED <<tvars, mvars>> /\ NaFrame /\ NaQuiet
    \/ phase[t] = 1 /\ Panic(t) /\ NaPhase(t, 2)
    \/ phase[t] = 2 /\ GuardDrop(t) /\ NaPhase(t, 3)
    \/ GuardUnlock(t) /\ NaSame
    \/ Finish(t) /\ NaSame

\* The value is 1 when the threads start.
InitCondvarPoison ==
    /\ InitMutex /\ InitRwLock /\ InitBarrier(NumThreads) /\ InitCondvar /\ InitDone
    /\ data = 1
    /\ tmp = [t \in Threads |-> 0]
    /\ phase = [t \in Threads |-> 0]
    /\ cycles = [t \in Threads |-> 0]

NextCondvarPoison ==
    \/ \E t \in Waiters : CpParentStep(t)
    \/ CpChildStep(Main)
    \/ \E t \in Waiters \cup {Main} : LockReturn(t) /\ NaSame
    \/ \E t \in Waiters : WaitReturn(t) /\ NaSame
    \/ \E t \in Waiters : SpuriousWake(t) /\ NaSame

SpecCondvarPoison == InitCondvarPoison /\ [][NextCondvarPoison]_vars

\* ---------------------------------------------------------- Condvar claims

\* C12: a thread blocked in wait() has released the mutex and is registered
\* with the condition variable in the same step, so a notification issued
\* while it waits reaches it and it returns from wait() with the guard.
C12_NoLostWakeup ==
    /\ [](\A t \in CvThreads : pc[t] = "cv_wait" => (t \in waiters /\ owner # t))
    /\ \A t \in CvThreads :
          signalled[t] ~> (Running(t) /\ holds[t] /\ ~signalled[t])

\* A waiter was notified while another thread held the mutex.
C12_Witness ==
    \E t, u \in CvThreads :
        /\ signalled[t] /\ pc[t] = "cv_relock"
        /\ holds[u] /\ owner = u

\* C14: a notify issued while nobody waits wakes nobody later: a thread that
\* starts to wait after it blocks, and a waiter is only ever woken by a notify
\* issued while it was waiting or by a spurious wakeup.
C14_NotBuffered ==
    /\ [][\A t \in CvThreads : (missed /\ Wait(t)) => pc'[t] = "cv_wait"]_vars
    /\ [](\A t \in CvThreads : pc[t] = "cv_relock" => (signalled[t] \/ spur[t]))

\* A notify found nobody, and a thread that began to wait afterwards is blocked.
C14_Witness ==
    \E t \in CvThreads :
        missed /\ pc[t] = "cv_wait" /\ ~signalled[t] /\ ~spur[t]

\* C15: once the main thread has made the condition false under the mutex and
\* called notify_all, every one of the N waiting threads returns from its wait
\* loop; none has left the loop before the counter was reset.
C15_NotifyAllWakesAll ==
    /\ \A t \in Waiters : (phase[Main] >= 2) ~> (phase[t] >= 3)
    /\ [](\A t \in Waiters : phase[t] >= 3 => phase[Main] >= 1)

\* notify_all has just woken all N waiters at once.
C15_Witness ==
    /\ phase[Main] = 2
    /\ waiters = {}
    /\ \A t \in Waiters : pc[t] = "cv_relock" /\ phase[t] = 2

\* C16: when wait() returns, the caller holds the mutex again; it returns Poisoned
\* if the child has panicked with the guard in hand and its unwind has dropped
\* the guard, and Ok if no thread has panicked under the mutex; a parent leaves
\* its loop through the Err arm only after the child's panic.
C16_WaitPropagatesPoison ==
    /\ [][\A u \in Waiters :
            WaitReturn(u)
            => /\ holds'[u] /\ owner' = u
               /\ (Main \in crashed /\ GuardGone(Main)) => result'[u] = "Poisoned"
               /\ crashed = {} => result'[u] = "Ok"]_vars
    /\ [](\A u \in Waiters : phase[u] = 2 => (Main \in crashed /\ holds[u]))

\* The child panicked after its notify_one, and the parent it woke has left its
\* loop through the Err arm with the guard in hand.
C16_Witness ==
    \E u \in Waiters :
        /\ phase[u] = 2
        /\ result[u] = "Poisoned"
        /\ holds[u] /\ owner = u
        /\ pc[Main] = "dead"

\* t is inside the native wait: blocked, or woken and going for the mutex.
Blocked(t) == pc[t] \in {"cv_wait", "cv_relock"}

\* t is inside wait, wait_while, wait_timeout or wait_timeout_while.
InWaitCall(t) == pc[t] \in {"cv_wait", "cv_relock", "ww_test", "wtw_test"}

\* A step in which t returns from the wait call it is in.
WaitCallReturns(t) == InWaitCall(t) /\ pc'[t] = "run"

\* C13: a thread blocked inside any of the waits does not hold the mutex; every
\* return from wait, wait_while, wait_timeout and wait_timeout_while, Ok or
\* Poisoned, timed out or not, leaves the caller with the guard and the mutex;
\* and at no time do two threads have the mutex.
C13_WaitKeepsMutex ==
    /\ [](\A t \in CvThreads : Blocked(t) => (owner # t /\ ~holds[t]))
    /\ [][\A t \in CvThreads : WaitCallReturns(t) =>
            (holds'[t] /\ owner' = t /\ result'[t] \in {"Ok", "Poisoned"})]_vars
    /\ [](\A t, u \in CvThreads : (holds[t] /\ holds[u]) => (t = u /\ owner = t))

\* A timed wait that timed out came back Poisoned, with the guard.
C13_Witness ==
    \E t \in CvThreads :
        /\ Running(t) /\ holds[t] /\ owner = t
        /\ result[t] = "Poisoned" /\ timed_out[t] = "yes"

\* C17: wait_while returns Ok only from its test of the predicate, made with the
\* mutex held, and only when that test said false: no wakeup, spurious or by a
\* notify, returns Ok while the predicate is true. With the tests' predicate
\* |started| !*started, the guard an Ok return hands over sees the flag set.
C17_WaitWhileOk ==
    /\ [][\A t \in WtThreads :
            (op[t] = "wait_while" /\ WaitCallReturns(t) /\ result'[t] = "Ok")
            => /\ pc[t] = "ww_test" /\ ~condition(t)
               /\ holds[t] /\ owner = t
               /\ holds'[t] /\ owner' = t]_vars
    /\ [](\A t \in WtThreads :
            (phase[t] = 1 /\ op[t] = "none" /\ result[t] = "Ok") => started)

\* wait_while has returned Ok to the main thread after the spawned thread set
\* the flag, and the main thread has the guard.
C17_Witness ==
    \E t \in WtThreads :
        /\ phase[t] = 1 /\ op[t] = "none" /\ result[t] = "Ok"
        /\ Running(t) /\ holds[t] /\ owner = t
        /\ started

\* t is at the head of wait_timeout_while's loop and its predicate says false.
AtTestFalse(t) ==
    pc[t] = "wtw_test" /\ op[t] = "wait_timeout_while" /\ ~condition(t)

\* C18: wait_timeout_while enters its loop with the guard still held, for every
\* duration; when the predicate is false there, the call's next step is its
\* return, which is never blocked, gives Ok with timed_out = false and the guard,
\* and touches neither the mutex nor the condvar's waiters: no release, no wait,
\* whatever the duration and however much time has passed.
C18_InstantSatisfy ==
    /\ [][\A t \in WtThreads :
            (pc[t] = "run" /\ pc'[t] = "wtw_test")
            => (holds'[t] /\ owner' = t /\ owner = t /\ waiters' = waiters)]_vars
    /\ [](\A t \in WtThreads :
            AtTestFalse(t) => (holds[t] /\ owner = t /\ ENABLED WaitTimeoutWhileTest(t)))
    /\ [][\A t \in WtThreads :
            (AtTestFalse(t) /\ pc'[t] # pc[t])
            => /\ pc'[t] = "run"
               /\ result'[t] = "Ok" /\ timed_out'[t] = "no"
               /\ holds'[t] /\ owner' = t
               /\ waiters' = waiters]_vars
    /\ [][\A t \in WtThreads :
            (AtTestFalse(t) /\ pc'[t] = pc[t]) => (owner' = t /\ ~condition(t)')]_vars

\* Called with duration zero and the flag already set, wait_timeout_while has
\* returned Ok, not timed out, with the guard, before the clock moved.
C18_Witness ==
    \E t \in WtThreads :
        /\ phase[t] = 3 /\ op[t] = "none"
        /\ result[t] = "Ok" /\ timed_out[t] = "no"
        /\ Running(t) /\ holds[t] /\ owner = t
        /\ started /\ now = 0

\* C19: with a predicate that stays true, every return of wait_timeout_while
\* carries timed_out = true and is made once the requested duration has elapsed
\* since the call began; a re-wait after a spurious wakeup or a notification is
\* given the time that remains, so no native deadline lies beyond start + dur.
C19_AlwaysTrueTimesOut ==
    /\ [][\A t \in WtThreads :
            (op[t] = "wait_timeout_while" /\ pred[t] = "always" /\ WaitCallReturns(t))
            => (timed_out'[t] = "yes" /\ elapsed(t) >= dur[t])]_vars
    /\ [](\A t \in WtThreads :
            (op[t] = "wait_timeout_while" /\ Blocked(t))
            => deadline[t] <= start[t] + dur[t])

\* C20: every return of wait_timeout_while that carries timed_out = false, the
\* Ok return and the Poisoned return alike, is made from the test of the
\* predicate, with the predicate false.
C20_NoFalseWithoutPredicate ==
    [][\A t \in WtThreads :
        (op[t] = "wait_timeout_while" /\ WaitCallReturns(t) /\ timed_out'[t] = "no")
        => AtTestFalse(t)]_vars

\* t is inside a wait() call of a round all of whose N calls have been made.
InFullRound(t) ==
    /\ pc[t] \in {"b_loop", "b_wait", "b_relock", "b_exit", "b_lead", "b_lead_ret"}
    /\ arrivals >= (my_round[t] + 1) * num_threads

\* C11: once the N calls of a round have been made, each of them returns, in
\* the first round and in every later one.
C11_BarrierLiveness ==
    \A t \in Threads : InFullRound(t) ~> (pc[t] = "run" /\ Returned(t))

\* A follower blocked in the condition variable when the last call of a later
\* round arrives.
C11_Witness ==
    \E t, u \in BThreads :
        /\ pc[t] = "b_wait" /\ my_round[t] = MaxRounds - 1
        /\ pc[u] = "b_lead" /\ my_round[u] = MaxRounds - 1

\* ------------------------------------------------- the poison programs
\* One Mutex (with a Condvar) or one RwLock, created initialized, used by two
\* threads that may panic at any point and that may lock again in a destructor
\* that runs during their unwind (tests/mutex.rs test_mutex_arc_access_in_unwind,
\* tests/rwlock.rs test_rw_arc_access_in_unwind). A thread that finds itself
\* alone with the primitive may call get_mut() or into_inner() on it
\* (tests/mutex.rs test_get_mut_poison, test_into_inner_poison).

\* The two threads of these tests.
PoisonThreads == {t \in RwThreads : t <= 2}

InitPoison ==
    /\ InitMutex /\ InitCounter /\ InitRwLock /\ InitBarrier(NumThreads) /\ InitCondvar
    /\ prim \in {"Mutex", "RwLock"}
    /\ debug_assertions = TRUE
    /\ backend = "unix"
    /\ host_poisoned = FALSE
    /\ state = INIT
    /\ runs = 1
    /\ writes = 1
    /\ drops = 0
    /\ gone = FALSE
    /\ call = [t \in Threads |-> "none"]
    /\ life = "done"

\* What no step of these programs changes.
PoisonKeeps ==
    UNCHANGED <<phase, cycles, bvars, xvars,
                prim, debug_assertions, backend, host_poisoned, state, runs, writes, drops, life>>

\* The step is t's call of operation c of the Mutex.
MutexCalled(t, c) ==
    /\ call' = [call EXCEPT ![t] = c]
    /\ UNCHANGED <<data, tmp, gone, rvars>>
    /\ PoisonKeeps

\* The step continues an operation of the Mutex.
MutexInside == UNCHANGED <<call, data, tmp, gone, rvars>> /\ PoisonKeeps

\* The step is t's call of operation c of the RwLock.
RwCalled(t, c) ==
    /\ call' = [call EXCEPT ![t] = c]
    /\ UNCHANGED <<data, tmp, gone, owner, holds, waiters>>
    /\ PoisonKeeps

\* The step continues an operation of the RwLock.
RwInside == UNCHANGED <<call, data, tmp, gone, owner, holds, waiters>> /\ PoisonKeeps

\* No guard of the primitive exists and no thread is inside one of its
\* operations: what `&mut self` and `self` require of the caller.
Exclusive ==
    \A u \in Threads :
        /\ pc[u] \in {"run", "dead"}
        /\ ~holds[u] /\ ~wguard[u] /\ rguards[u] = 0

\* `*guard = v` through an exclusive guard
GuardStore(t) ==
    /\ Running(t)
    /\ holds[t] \/ wguard[t]
    /\ data' = 1 - data
    /\ UNCHANGED <<tvars, mvars, rvars, tmp, gone, call>>
    /\ PoisonKeeps

\* get_mut reports Ok whatever the flag says.
get_mut_always_ok(t) ==
    /\ Running(t)
    /\ Exclusive
    /\ Res(t, "Ok")
    /\ tmp' = [tmp EXCEPT ![t] = data]
    /\ call' = [call EXCEPT ![t] = "get_mut"]
    /\ UNCHANGED <<pc, panicking, mvars, rvars, data, gone>>
    /\ PoisonKeeps

\* Mutex::get_mut / RwLock::get_mut:
\* let data = self.data.get_mut(); poison::map_result(self.poison.borrow(), |_| data)
get_mut(t) ==
    /\ Running(t)
    /\ Exclusive
    /\ Res(t, borrow_result)
    /\ tmp' = [tmp EXCEPT ![t] = data]
    /\ call' = [call EXCEPT ![t] = "get_mut"]
    /\ UNCHANGED <<pc, panicking, mvars, rvars, data, gone>>
    /\ PoisonKeeps

\* Mutex::into_inner / RwLock::into_inner: the primitive is consumed;
\* poison::map_result(poison.borrow(), |_| data.into_inner())
into_inner(t) ==
    /\ Running(t)
    /\ Exclusive
    /\ Res(t, borrow_result)
    /\ tmp' = [tmp EXCEPT ![t] = data]
    /\ gone' = TRUE
    /\ call' = [call EXCEPT ![t] = "into_inner"]
    /\ UNCHANGED <<pc, panicking, mvars, rvars, data>>
    /\ PoisonKeeps

\* Mutex::is_poisoned / RwLock::is_poisoned: self.poison.get()
is_poisoned(t) ==
    /\ Running(t)
    /\ Res(t, IF failed THEN "true" ELSE "false")
    /\ call' = [call EXCEPT ![t] = "is_poisoned"]
    /\ UNCHANGED <<pc, panicking, mvars, rvars, data, tmp, gone>>
    /\ PoisonKeeps

\* lock, try_lock, wait, notify_all, guard drop and panic on the Mutex. A thread
\* does not lock the mutex while it holds its guard (that is a self-deadlock).
PoisonMutexStep(t) ==
    \/ ~holds[t] /\ LockCall(t) /\ MutexCalled(t, "lock")
    \/ LockReturn(t) /\ MutexInside
    \/ ~holds[t] /\ TryLockCall(t) /\ MutexCalled(t, "try_lock")
    \/ TryLockReturn(t) /\ MutexInside
    \/ Wait(t) /\ MutexCalled(t, "wait")
    \/ NotifyAll(t) /\ MutexCalled(t, "notify_all")
    \/ WaitReturn(t) /\ MutexInside
    \/ GuardDrop(t) /\ MutexInside
    \/ GuardUnlock(t) /\ MutexInside
    \/ Panic(t) /\ MutexInside
    \/ Finish(t) /\ MutexInside

\* read, try_read, write, try_write, guard drop and panic on the RwLock.
PoisonRwStep(t) ==
    \/ ReadCall(t) /\ RwCalled(t, "read")
    \/ ReadGrant(t) /\ RwInside
    \/ ReadDeadlk(t) /\ RwInside
    \/ ReadCheck(t) /\ RwInside
    \/ TryRead(t) /\ RwCalled(t, "try_read")
    \/ TryReadCheck(t) /\ RwInside
    \/ WriteCall(t) /\ RwCalled(t, "write")
    \/ WriteGrant(t) /\ RwInside
    \/ WriteDeadlk(t) /\ RwInside
    \/ WriteCheck(t) /\ RwInside
    \/ TryWrite(t) /\ RwCalled(t, "try_write")
    \/ TryWriteCheck(t) /\ RwInside
    \/ ReadGuardDrop(t) /\ RwInside
    \/ ReadUnlock(t) /\ RwInside
    \/ WriteGuardDrop(t) /\ RwInside
    \/ WriteClear(t) /\ RwInside
    \/ WriteUnlock(t) /\ RwInside
    \/ RwPanic(t) /\ RwInside
    \/ RwFinish(t) /\ RwInside

\* The operations both primitives have.
PoisonAnyStep(t) ==
    \/ GuardStore(t)
    \/ get_mut(t)
    \/ into_inner(t)
    \/ is_poisoned(t)

\* Nothing is called on a primitive that into_inner() has consumed.
NextPoison ==
    \/ ~gone /\ prim = "Mutex" /\ \E t \in PoisonThreads : PoisonMutexStep(t)
    \/ ~gone /\ prim = "RwLock" /\ \E t \in PoisonThreads : PoisonRwStep(t)
    \/ ~gone /\ \E t \in PoisonThreads : PoisonAnyStep(t)

SpecPoison == InitPoison /\ [][NextPoison]_vars

\* ------------------------------------------- RwLock on a lenient native lock
\* The RwLock of the poison programs on a native lock that may return 0 to a
\* thread that already holds a conflicting lock, the case the secondary checks
\* of sys::unix::RwLock are written for.

\* `pthread_rwlock_rdlock` succeeded when it should not have.
ReadGrantHeld(t) ==
    /\ pc[t] = "read"
    /\ rw_rdlock_held(t)
    /\ Goto(t, "read_chk")
    /\ UNCHANGED <<panicking, result, failed, token, crashed,
                   write_locked, num_readers, rguards, wguard, mid, rcrashed>>

\* `pthread_rwlock_tryrdlock` succeeded when it should not have.
TryReadHeld(t) ==
    /\ CanCall(t)
    /\ rguards[t] < MaxReadGuards
    /\ rw_rdlock_held(t)
    /\ Goto(t, "try_read_chk") /\ Res(t, "none")
    /\ UNCHANGED <<panicking, failed, token, crashed,
                   write_locked, num_readers, rguards, wguard, mid, rcrashed>>

\* `pthread_rwlock_wrlock` succeeded when it should not have.
WriteGrantHeld(t) ==
    /\ pc[t] = "write"
    /\ rw_wrlock_held(t)
    /\ Goto(t, "write_chk")
    /\ UNCHANGED <<panicking, result, failed, token, crashed,
                   write_locked, num_readers, rguards, wguard, mid, rcrashed>>

\* `pthread_rwlock_trywrlock` succeeded when it should not have.
TryWriteHeld(t) ==
    /\ CanCall(t)
    /\ rw_wrlock_held(t)
    /\ Goto(t, "try_write_chk") /\ Res(t, "none")
    /\ UNCHANGED <<panicking, failed, token, crashed,
                   write_locked, num_readers, rguards, wguard, mid, rcrashed>>

LenientStep(t) ==
    \/ ReadGrantHeld(t) /\ RwInside
    \/ TryReadHeld(t) /\ RwCalled(t, "try_read")
    \/ WriteGrantHeld(t) /\ RwInside
    \/ TryWriteHeld(t) /\ RwCalled(t, "try_write")

InitLenient ==
    /\ InitMutex /\ InitCounter /\ InitRwLock /\ InitBarrier(NumThreads) /\ InitCondvar
    /\ prim = "RwLock"
    /\ debug_assertions = TRUE
    /\ backend = "unix"
    /\ host_poisoned = FALSE
    /\ state = INIT
    /\ runs = 1
    /\ writes = 1
    /\ drops = 0
    /\ gone = FALSE
    /\ call = [t \in Threads |-> "none"]
    /\ life = "done"

NextLenient ==
    \/ \E t \in PoisonThreads : PoisonRwStep(t)
    \/ \E t \in PoisonThreads : LenientStep(t)

SpecLenient == InitLenient /\ [][NextLenient]_vars

\* --------------------------------------------------- the init programs
\* One Mutex, RwLock or Condvar from uninit(), in a build with or without
\* debug assertions. Threads call init() and the other operations in any
\* order; a panic ends the call and is caught (thread::spawn(..).join(),
\* catch_unwind), so the thread and the others go on. One of them, alone
\* with the primitive, may drop it.

InitThreads == RwThreads

\* sys::unix::Condvar, as the specification describes it: its native object is
\* behind the lazy-init guard in every build, and its construction can fail.
CondvarSys == [guarded |-> TRUE, may_fail |-> TRUE]

\* The sys object of the primitive has an InitAssert: sys::unix::Mutex.lock in
\* every build, sys::unix::RwLock.initialized under cfg(debug_assertions) only.
HasInitAssert ==
    CASE prim = "Mutex" -> TRUE
      [] prim = "RwLock" -> debug_assertions
      [] OTHER -> CondvarSys.guarded

\* The factory handed to init_with can panic: the cvt_nz(..).unwrap() calls of
\* sys::unix::Mutex::init; RwLock's factory is `|| {}`.
FactoryMayFail ==
    CASE prim = "Mutex" -> TRUE
      [] prim = "RwLock" -> FALSE
      [] OTHER -> CondvarSys.may_fail

\* The operations of the public interface besides init.
Ops ==
    CASE prim = "Mutex" -> {"lock", "try_lock", "is_poisoned", "get_mut", "into_inner"}
      [] prim = "RwLock" -> {"read", "try_read", "write", "try_write",
                             "is_poisoned", "get_mut", "into_inner"}
      [] OTHER -> {"notify_one", "notify_all", "wait"}

\* The operations that begin with InitAssert::get (self.lock.get(),
\* self.initialized.get()); is_poisoned, get_mut and into_inner read the poison
\* flag and the data only.
Checked ==
    IF HasInitAssert THEN Ops \ {"is_poisoned", "get_mut", "into_inner"} ELSE {}

\* InitAssert::get / get_ref do not look at the state.
get_passes_always == TRUE

\* InitAssert::get / get_ref accept any state but UNINIT.
get_passes_unless_uninit == state # UNINIT

\* InitAssert::get / get_ref: assert_eq!(self.state.load(Acquire), INIT)
get_passes == state = INIT

\* impl Drop for InitAssert: if self.state.load(Acquire) == INIT { drop_in_place }
drop_in_place_runs == HasInitAssert /\ state = INIT

InitUninit ==
    /\ InitMutex /\ InitCounter /\ InitRwLock /\ InitBarrier(NumThreads) /\ InitCondvar
    /\ prim \in {"Mutex", "RwLock", "Condvar"}
    /\ debug_assertions \in BOOLEAN
    /\ backend = "unix"
    /\ host_poisoned = FALSE
    /\ state = UNINIT
    /\ runs = 0
    /\ writes = 0
    /\ drops = 0
    /\ gone = FALSE
    /\ call = [t \in Threads |-> "none"]
    /\ life = "no"

\* What no step of these programs changes.
IaKeeps == UNCHANGED <<panicking, mvars, cvars, rvars, bvars, xvars, prim, debug_assertions, backend, host_poisoned>>

\* No thread is inside init(): what dropping or consuming the primitive requires.
NoneInside == \A u \in Threads : pc[u] \in {"run", "dead"}

\* init_with reads the state where it should swap it: the state stays UNINIT
\* until the store.
init_with_load(t) ==
    /\ Running(t)
    /\ call' = [call EXCEPT ![t] = "init"]
    /\ IF HasInitAssert
       THEN /\ state' = state
            /\ life' = IF life = "no" THEN "started" ELSE life
            /\ IF state = UNINIT
               THEN Goto(t, "factory") /\ Res(t, "none") /\ runs' = runs + 1
               ELSE UNCHANGED pc /\ Res(t, "panic") /\ UNCHANGED runs
       ELSE /\ life' = "done"
            /\ Res(t, "Ok")
            /\ UNCHANGED <<pc, state, runs>>
    /\ UNCHANGED <<writes, drops, gone>>
    /\ IaKeeps

\* init_with lets a call through unless the value is complete.
init_with_unless_init(t) ==
    /\ Running(t)
    /\ call' = [call EXCEPT ![t] = "init"]
    /\ IF HasInitAssert
       THEN /\ state' = INIT_IN_PROGRESS
            /\ life' = IF life = "no" THEN "started" ELSE life
            /\ IF state # INIT
               THEN Goto(t, "factory") /\ Res(t, "none") /\ runs' = runs + 1
               ELSE UNCHANGED pc /\ Res(t, "panic") /\ UNCHANGED runs
       ELSE /\ life' = "done"
            /\ Res(t, "Ok")
            /\ UNCHANGED <<pc, state, runs>>
    /\ UNCHANGED <<writes, drops, gone>>
    /\ IaKeeps

\* init() of the primitive, up to the factory:
\* assert_eq!(self.state.swap(INIT_IN_PROGRESS, Acquire), UNINIT);
\* without an InitAssert (RwLock, no debug assertions) init() is empty.
init_with(t) ==
    /\ Running(t)
    /\ call' = [call EXCEPT ![t] = "init"]
    /\ IF HasInitAssert
       THEN /\ state' = INIT_IN_PROGRESS
            /\ life' = IF life = "no" THEN "started" ELSE life
            /\ IF state = UNINIT
               THEN Goto(t, "factory") /\ Res(t, "none") /\ runs' = runs + 1
               ELSE UNCHANGED pc /\ Res(t, "panic") /\ UNCHANGED runs
       ELSE /\ life' = "done"
            /\ Res(t, "Ok")
            /\ UNCHANGED <<pc, state, runs>>
    /\ UNCHANGED <<writes, drops, gone>>
    /\ IaKeeps

\* f(ptr): the factory constructs the value in place, or panics before it has.
Factory(t) ==
    /\ pc[t] = "factory"
    /\ \/ writes' = writes + 1 /\ Goto(t, "store") /\ UNCHANGED result
       \/ FactoryMayFail /\ Goto(t, "run") /\ Res(t, "panic") /\ UNCHANGED writes
    /\ UNCHANGED <<state, runs, drops, gone, call, life>>
    /\ IaKeeps

\* self.state.store(INIT, Release); and init() returns
StoreInit(t) ==
    /\ pc[t] = "store"
    /\ state' = INIT
    /\ life' = "done"
    /\ Goto(t, "run") /\ Res(t, "Ok")
    /\ UNCHANGED <<runs, writes, drops, gone, call>>
    /\ IaKeeps

\* An operation o of the primitive: the checked ones panic in InitAssert::get
\* unless the state is INIT; into_inner consumes the primitive and drops its
\* sys object.
OpCall(t, o) ==
    /\ Running(t)
    /\ o \in {"get_mut", "into_inner"} => NoneInside
    /\ call' = [call EXCEPT ![t] = o]
    /\ Res(t, IF o \in Checked /\ ~get_passes THEN "panic" ELSE "Ok")
    /\ IF o = "into_inner"
       THEN /\ gone' = TRUE
            /\ drops' = IF drop_in_place_runs THEN drops + 1 ELSE drops
       ELSE UNCHANGED <<gone, drops>>
    /\ UNCHANGED <<pc, state, runs, writes, life>>
    /\ IaKeeps

\* The primitive is dropped.
DropPrimitive(t) ==
    /\ Running(t)
    /\ NoneInside
    /\ gone' = TRUE
    /\ drops' = IF drop_in_place_runs THEN drops + 1 ELSE drops
    /\ call' = [call EXCEPT ![t] = "drop"]
    /\ Res(t, "none")
    /\ UNCHANGED <<pc, state, runs, writes, life>>
    /\ IaKeeps

\* Nothing is called on a primitive that is gone.
NextInit ==
    \/ ~gone /\ \E t \in InitThreads : init_with(t)
    \/ \E t \in InitThreads : Factory(t)
    \/ \E t \in InitThreads : StoreInit(t)
    \/ ~gone /\ \E t \in InitThreads : \E o \in Ops : OpCall(t, o)
    \/ ~gone /\ \E t \in InitThreads : DropPrimitive(t)

SpecInit == InitUninit /\ [][NextInit]_vars

\* ----------------------------------------------------------- poison claims

\* A step in which t releases an exclusive guard.
Release(t) == GuardDrop(t) \/ WriteGuardDrop(t)

\* C21: the release of a MutexGuard or RwLockWriteGuard sets the poison flag if
\* and only if the releasing thread began to unwind while it held an exclusive
\* guard: a release by a thread that is not unwinding, and the release of a lock
\* taken in a destructor during the unwind, leave the flag as it was; the flag is
\* set only after such a panic.
C21_PoisonOnRelease ==
    /\ [][\A t \in PoisonThreads :
            Release(t) => (failed' <=> (failed \/ t \in crashed))]_vars
    /\ [](failed => crashed # {})

\* A thread that panicked with no guard in hand took the lock in a destructor
\* during its unwind, released it and is dead; the flag is clear and another
\* thread has since got the lock with Ok.
C21_Witness ==
    \E t, u \in PoisonThreads :
        /\ pc[t] = "dead" /\ token[t] /\ t \notin crashed
        /\ ~failed
        /\ holds[u] \/ wguard[u]
        /\ result[u] = "Ok"

\* C22: the poison flag starts clear and no step of lock, try_lock, read, write,
\* wait, guard drop, get_mut, into_inner or is_poisoned clears it once it is set.
C22_FlagMonotone ==
    /\ ~failed
    /\ [][failed => failed']_vars

\* The flag is set, and a thread that is not unwinding has since asked
\* is_poisoned() and was told so.
C22_Witness ==
    /\ failed
    /\ \E u \in PoisonThreads :
         call[u] = "is_poisoned" /\ result[u] = "true" /\ ~panicking[u]

\* The lock is poisoned when nobody holds it: a thread began to unwind while
\* it held an exclusive guard.
WasPoisoned == crashed # {}

\* C23: get_mut() and into_inner() of a Mutex or RwLock do not panic; they return
\* Ok when no thread panicked while holding an exclusive guard and Poisoned when
\* one did, and in both cases they hand out the guarded value as it is, unchanged.
C23_OwnedAccess ==
    /\ [][\A t \in PoisonThreads :
            (get_mut(t) \/ into_inner(t)) =>
                /\ result'[t] = IF WasPoisoned THEN "Poisoned" ELSE "Ok"
                /\ tmp'[t] = data /\ data' = data
                /\ pc'[t] = "run" /\ panicking'[t] = panicking[t]]_vars
    /\ [](gone => \E t \in PoisonThreads :
                    /\ call[t] = "into_inner"
                    /\ result[t] = IF WasPoisoned THEN "Poisoned" ELSE "Ok"
                    /\ tmp[t] = data)

\* A thread stored a new value and panicked with the guard; another thread,
\* not unwinding, then consumed the lock and got Poisoned with the new value.
C23_Witness ==
    \E t \in PoisonThreads :
        /\ gone /\ call[t] = "into_inner" /\ ~panicking[t]
        /\ result[t] = "Poisoned"
        /\ tmp[t] = 1 /\ data = 1

\* C24: a try_lock() that returns found the mutex free, takes it and returns the
\* guard: inside Poisoned when the poison flag is set, inside Ok when it is
\* clear; no try_lock() returns WouldBlock while the caller has the mutex.
C24_TryLockPoisoned ==
    /\ [][\A t \in PoisonThreads :
            TryLockReturn(t) =>
                /\ owner = NoThread
                /\ owner' = t /\ holds'[t]
                /\ result'[t] = IF failed THEN "Poisoned" ELSE "Ok"]_vars
    /\ [](\A t \in PoisonThreads :
            (call[t] = "try_lock" /\ result[t] = "WouldBlock") => owner # t)

\* The last thing a thread called is try_lock(); it is back with Poisoned and
\* the guard, and the thread that poisoned the mutex is dead.
C24_Witness ==
    \E t, c \in PoisonThreads :
        /\ call[t] = "try_lock" /\ Running(t)
        /\ result[t] = "Poisoned" /\ holds[t] /\ owner = t
        /\ c \in crashed /\ pc[c] = "dead"

\* ------------------------------------------------------------- init claims

C27_StateOnlyForward ==
    [][state' # state =>
        \/ state = UNINIT /\ state' = INIT_IN_PROGRESS
        \/ state = INIT_IN_PROGRESS /\ state' = INIT]_vars

\* C28: in every interleaving of init() calls on one lazy-init guard the factory
\* is started at most once and the value is constructed at most once; an init()
\* call made after the factory was started panics, starts no factory and leaves
\* the value alone.
C28_FactoryOnce ==
    /\ [](runs <= 1 /\ writes <= runs)
    /\ [][\A t \in InitThreads :
            (init_with(t) /\ HasInitAssert /\ runs >= 1) =>
                /\ result'[t] = "panic" /\ pc'[t] = "run"
                /\ runs' = runs /\ writes' = writes]_vars

\* One thread has constructed the value and is about to store INIT; the
\* init() call another thread made meanwhile has panicked.
C28_Witness ==
    \E t, u \in InitThreads :
        /\ pc[t] = "store" /\ writes = 1 /\ runs = 1
        /\ call[u] = "init" /\ result[u] = "panic" /\ Running(u)

\* The value of the lazy-init guard is there: constructed, with INIT stored
\* after it, by an init() call that has returned.
Constructed == writes = 1 /\ life = "done"

\* C29: an operation that begins with get() / get_ref() goes on to use the value
\* only if the value has been constructed by an init() call that has returned;
\* called before any init(), during one, or after one whose factory panicked,
\* it panics.
C29_GetOnlyConstructed ==
    /\ [](\A t \in InitThreads :
            (call[t] \in Checked /\ result[t] = "Ok") => Constructed)
    /\ [][\A t \in InitThreads : \A o \in Checked :
            (OpCall(t, o) /\ ~Constructed) => result'[t] = "panic"]_vars

\* The factory of the only init() call panicked midway; an operation called
\* after that panicked as well.
C29_Witness ==
    \E t \in InitThreads :
        /\ call[t] \in Checked /\ result[t] = "panic"
        /\ runs = 1 /\ writes = 0 /\ NoneInside
        /\ state = INIT_IN_PROGRESS

\* C30: once a primitive with a lazy-init guard is dropped or consumed, the
\* wrapped value has been dropped exactly once if an init() call had returned,
\* and not at all otherwise, after any sequence of init() calls, rejected ones
\* included.
C30_DropOnceIfInitialized ==
    (gone /\ HasInitAssert) => drops = IF life = "done" THEN 1 ELSE 0

\* ------------------------------------------------- RwLock bookkeeping claims

\* C31: in every reachable state write_locked and num_readers > 0 are not both
\* true and num_readers is not negative, whatever read, try_read, write,
\* try_write and guard drops are interleaved, on a native lock that follows
\* POSIX and on one that grants a lock to a thread holding a conflicting one.
C31_RwBookkeeping ==
    /\ ~(write_locked /\ num_readers > 0)
    /\ num_readers >= 0

\* A read guard is live and the native lock has granted a write lock: write()
\* is about to look at num_readers.
C31_Witness ==
    /\ num_readers > 0
    /\ \E t \in PoisonThreads : pc[t] = "write_chk"

\* The native locks t holds.
NativeHeld(t) == rw_r[t] + IF rw_w = t THEN 1 ELSE 0

\* The step is t's, and it leaves guards, reader count and flag as they are
\* and gives back one native lock of t.
Undone(t) ==
    /\ pc'[t] = "run"
    /\ rguards' = rguards /\ wguard' = wguard
    /\ num_readers' = num_readers /\ write_locked' = write_locked
    /\ NativeHeld(t)' = NativeHeld(t) - 1

\* C32: when the native lock has granted read() although write_locked is set,
\* or write() although write_locked is set or num_readers is not 0, the call
\* gives the native lock back, panics and hands out no guard; a write guard
\* never exists along with another guard.
C32_EscalationRefused ==
    /\ [][\A t \in PoisonThreads :
            \/ pc[t] = "read_chk" /\ write_locked
            \/ pc[t] = "write_chk" /\ (write_locked \/ num_readers # 0)
            => (pc'[t] # pc[t] => (Undone(t) /\ panicking'[t]))]_vars
    /\ [](\A t, u \in PoisonThreads :
            wguard[t] => (rguards[u] = 0 /\ (wguard[u] => u = t)))

\* A thread with the write guard called read(), the native lock granted it, and
\* the call panicked: the thread unwinds with its write guard and with one
\* native lock, as a reader now.
C32_Witness ==
    \E t \in PoisonThreads :
        /\ call[t] = "read" /\ Running(t) /\ panicking[t]
        /\ wguard[t] /\ rguards[t] = 0
        /\ rw_w = NoThread /\ rw_r[t] = 1

\* C33: when the native lock has granted try_read() although write_locked is
\* set, or try_write() although write_locked is set or num_readers is not 0, the
\* call gives the native lock back, leaves num_readers and write_locked as they
\* are and returns WouldBlock; no step of try_read or try_write panics.
C33_TryRefused ==
    /\ [][\A t \in PoisonThreads :
            \/ pc[t] = "try_read_chk" /\ write_locked
            \/ pc[t] = "try_write_chk" /\ (write_locked \/ num_readers # 0)
            => (pc'[t] # pc[t] => (Undone(t) /\ result'[t] = "WouldBlock"))]_vars
    /\ [][\A t \in PoisonThreads :
            (pc[t] \in {"try_read_chk", "try_write_chk"} \/ pc'[t] \in {"try_read_chk", "try_write_chk"}
             \/ (call'[t] \in {"try_read", "try_write"} /\ call'[t] # call[t]))
            => panicking'[t] = panicking[t]]_vars

\* A thread with a read guard called try_write(), the native lock granted it,
\* and the call returned WouldBlock: the thread has its read guard, it is not
\* unwinding, and it holds one native lock, as the writer now.
C33_Witness ==
    \E t \in PoisonThreads :
        /\ call[t] = "try_write" /\ Running(t) /\ ~panicking[t]
        /\ result[t] = "WouldBlock"
        /\ rguards[t] = 1 /\ ~wguard[t]
        /\ rw_w = t /\ rw_r[t] = 0

\* t has no guard of the RwLock.
HoldsNone(t) == rguards[t] = 0 /\ ~wguard[t]

\* C37: on a native lock that follows POSIX, a thread that has no guard and
\* obtains the native lock finds write_locked clear and, if it asked for the
\* write lock, num_readers at 0; its read() or write() ends with a guard, never
\* with the deadlock panic.
C37_NoFalseDeadlock ==
    /\ [](\A t \in RwThreads :
            (HoldsNone(t) /\ pc[t] \in {"read_chk", "try_read_chk"}) => ~write_locked)
    /\ [](\A t \in RwThreads :
            (HoldsNone(t) /\ pc[t] \in {"write_chk", "try_write_chk"})
            => (~write_locked /\ num_readers = 0))
    /\ [][\A t \in RwThreads :
            (HoldsNone(t) /\ pc[t] \in {"read", "write", "read_chk", "write_chk"}
             /\ pc'[t] = "run")
            => (result'[t] \in {"Ok", "Poisoned"} /\ panicking'[t] = panicking[t])]_vars

\* A thread without a guard has just been granted the native write lock after
\* a guard went away in a panic, while another thread is blocked in read().
C37_Witness ==
    \E t, u \in RwThreads :
        /\ pc[t] = "write_chk" /\ HoldsNone(t)
        /\ pc[u] = "read"
        /\ failed

\* ------------------------------------------------------ release order claims

\* The step drops t's exclusive guard: Drop::drop of the guard runs, which
\* updates the poison flag.
DropsExclusive(t) == (holds[t] /\ ~holds'[t] /\ pc'[t] = "unlock")
                     \/ (wguard[t] /\ ~wguard'[t])

\* The step gives back the native lock held for t's exclusive guard.
UnlocksExclusive(t) == (pc[t] = "unlock" /\ pc'[t] # "unlock")
                       \/ (pc[t] = "wr_unlock" /\ pc'[t] # "wr_unlock")

\* The step hands a guard to t.
Acquires(t) == \/ ~holds[t] /\ holds'[t] /\ pc[t] # "cv_relock"
               \/ ~wguard[t] /\ wguard'[t]
               \/ rguards'[t] > rguards[t]

\* The guard with which c began to unwind has been dropped and its native lock
\* given back.
ReleasedAfterPanic(c) ==
    /\ c \in crashed
    /\ ~holds[c] /\ ~wguard[c]
    /\ pc[c] \notin {"cv_wait", "cv_relock", "unlock", "wr_clear", "wr_unlock"}

\* C34 as stated: on release of a write guard the writer-held flag is cleared
\* first, the poison flag is updated second: when the poison flag is updated the
\* writer-held flag is already clear.
C34_ClearThenPoison ==
    [][\A t \in PoisonThreads :
        (wguard[t] /\ ~wguard'[t]) => ~write_locked]_vars

\* C34: on release of an exclusive guard the poison flag is updated first, with
\* the native lock and (RwLock) the writer-held flag still held; the writer-held
\* flag is cleared second, still under the native lock; the native lock is given
\* back last, with the writer-held flag clear and the poison flag set if the
\* holder began to unwind with the guard. A thread that gets a guard after such
\* a holder released finds the poison flag set and is handed Poisoned.
C34_PoisonThenClear ==
    /\ [][\A t \in PoisonThreads :
            /\ DropsExclusive(t) =>
                 /\ failed' = (failed \/ t \in crashed)
                 /\ prim = "Mutex" => (owner = t /\ owner' = t)
                 /\ prim = "RwLock" =>
                      (rw_w = t /\ rw_w' = t /\ write_locked /\ write_locked')
            /\ (pc[t] = "wr_clear" /\ pc'[t] # "wr_clear") =>
                 /\ write_locked /\ ~write_locked'
                 /\ rw_w = t /\ rw_w' = t
                 /\ failed' = failed /\ (t \in crashed => failed)
            /\ UnlocksExclusive(t) =>
                 /\ t \in crashed => failed
                 /\ failed' = failed
                 /\ prim = "Mutex" => (owner = t /\ owner' = NoThread)
                 /\ prim = "RwLock" =>
                      (rw_w = t /\ rw_w' = NoThread /\ ~write_locked)
            /\ (Acquires(t) /\ \E c \in PoisonThreads : ReleasedAfterPanic(c)) =>
                 (failed /\ result'[t] = "Poisoned")]_vars
    /\ [](\A c \in PoisonThreads :
            (c \in crashed /\ pc[c] \in {"unlock", "wr_clear", "wr_unlock", "dead"})
                => failed)

\* A writer began to unwind with its guard; the poison flag is set and the
\* guard is gone, the writer-held flag and the native lock are still held, and
\* the other thread is blocked in write().
C34_Witness ==
    \E c, u \in PoisonThreads :
        /\ pc[c] = "wr_clear" /\ c \in crashed
        /\ failed /\ ~wguard[c]
        /\ write_locked /\ rw_w = c
        /\ pc[u] = "write"

\* ------------------------------------------------ Barrier bookkeeping claims

\* The rounds completed so far, counted from the arrivals: the leader of a
\* round has reset the count unless it is still about to.
rounds_completed ==
    (arrivals \div num_threads) - IF \E t \in BThreads : pc[t] = "b_lead" THEN 1 ELSE 0

\* The step wakes w from the wait on the barrier's condition variable.
BWakes(w) == pc[w] = "b_wait" /\ pc'[w] = "b_relock"

\* C35: whenever the barrier's mutex is free the arrived-count is between 0 and
\* num_threads - 1; the leader of a round, holding the mutex, resets the count
\* from num_threads to 0 and advances the generation id by exactly one
\* (wrapping) in the step that wakes the waiters, and nothing else wakes more
\* than one waiter; at all times the generation id is the number of rounds
\* completed (modulo the width of the id) and after complete rounds the count
\* is 0.
C35_BarrierBookkeeping ==
    /\ [](owner = NoThread =>
            /\ count \in 0..(num_threads - 1)
            /\ count = arrivals % num_threads)
    /\ [](generation_id = rounds_completed % GenModulus)
    /\ [](rounds_completed < GenModulus => generation_id = rounds_completed)
    /\ []((arrivals % num_threads = 0 /\ \A t \in BThreads : pc[t] # "b_lead")
            => count = 0)
    /\ [](BAllDone => (count = 0 /\ rounds_completed = MaxRounds))
    /\ [][\A t \in BThreads :
            (pc[t] = "b_lead" /\ pc'[t] # "b_lead") =>
                /\ owner = t /\ owner' = t
                /\ count = num_threads /\ count' = 0
                /\ generation_id' = (generation_id + 1) % GenModulus
                /\ waiters' = {}
                /\ \A w \in waiters : BWakes(w)]_vars
    /\ [][\A w \in BThreads :
            BWakes(w) =>
                \/ \E t \in BThreads : pc[t] = "b_lead" /\ pc'[t] # "b_lead"
                \/ /\ generation_id' = generation_id /\ count' = count
                   /\ \A u \in BThreads \ {w} : ~BWakes(u)]_vars

\* One round of a barrier for several threads is complete and all but one
\* thread have arrived for the next: the mutex is free, the count is
\* num_threads - 1 and the generation id is 1.
C35_Witness ==
    /\ num_threads = NumThreads
    /\ owner = NoThread
    /\ arrivals = 2 * num_threads - 1
    /\ count = num_threads - 1
    /\ generation_id = 1
    /\ \E t \in BThreads : b_ret[t] = "leader" /\ Running(t)

\* t is a follower inside the loop of wait(): at its test, blocked, or woken.
InLoop(t) == pc[t] \in {"b_loop", "b_wait", "b_relock"}

\* The round of t's call is complete: its leader has reset the count.
RoundOver(t) == rounds_completed > my_round[t]

\* C36: with the generation id counted modulo GenModulus, the test of the
\* follower's loop lets a thread go exactly when the round of its call is
\* complete: the generation id recorded by a follower of a complete round
\* differs from the current one, also when the id has wrapped to 0 in between,
\* and that of an incomplete round equals it; a follower whose round completed
\* with a wrap of the id returns.
C36_WrapHarmless ==
    /\ [](\A t \in BThreads :
            pc[t] = "b_loop" => (keep_waiting(t) <=> ~RoundOver(t)))
    /\ [](\A t \in BThreads :
            InLoop(t) =>
                generation_id = IF RoundOver(t)
                                THEN (local_gen[t] + 1) % GenModulus
                                ELSE local_gen[t])
    /\ \A t \in Threads :
          (t \in BThreads /\ InLoop(t) /\ RoundOver(t) /\ generation_id < local_gen[t])
              ~> (pc[t] = "run" /\ b_ret[t] = "follower")

\* A follower recorded the last generation id before the wrap and is blocked;
\* its round is complete and the id is back to 0.
C36_Witness ==
    \E t \in BThreads :
        /\ pc[t] = "b_relock" /\ RoundOver(t)
        /\ local_gen[t] = GenModulus - 1
        /\ generation_id = 0
        /\ rounds_completed = GenModulus

\* --------------------------------------- the guard handed back by a wait
\* Two threads lock one Mutex, wait and wait_timeout on one Condvar, notify,
\* drop their guards and panic, in any order; call[t] is the last of lock,
\* wait and wait_timeout that t called, the one that gave it the guard it has.

\* The step is t's call of operation c.
TokenCalled(t, c) ==
    /\ call' = [call EXCEPT ![t] = c]
    /\ UNCHANGED <<cvars, rvars, bvars, signalled, missed,
                   prim, debug_assertions, backend, host_poisoned, state, runs, writes, drops, gone, life>>

TokenStep(t) ==
    \/ ~holds[t] /\ LockCall(t) /\ TokenCalled(t, "lock") /\ UNCHANGED xprog
    \/ LockReturn(t) /\ CvQuiet
    \/ op[t] = "none" /\ Wait(t) /\ TokenCalled(t, "wait") /\ UNCHANGED xprog
    \/ op[t] = "none" /\ WaitReturn(t) /\ CvQuiet
    \/ (\E d \in 0..MaxDur : WaitTimeoutCall(t, d)) /\ TokenCalled(t, "wait_timeout")
    \/ WaitTimeoutReturn(t) /\ TFrame
    \/ NotifyAll(t) /\ CvQuiet
    \/ GuardDrop(t) /\ CvQuiet
    \/ GuardUnlock(t) /\ CvQuiet
    \/ Panic(t) /\ CvQuiet
    \/ Finish(t) /\ CvQuiet

\* Any interleaving of the two threads, the clock, timeouts and spurious wakeups.
NextToken ==
    \/ \E t \in WtThreads : TokenStep(t)
    \/ \E t \in WtThreads : SpuriousWake(t) /\ CvQuiet
    \/ \E t \in WtThreads : TimeoutWake(t) /\ TFrame
    \/ Tick /\ TFrame

SpecToken == Init /\ [][NextToken]_vars

\* ------------------------------------------------------ wait guard claims

\* The guard t has, or had last, was handed back by wait or wait_timeout.
FromWait(t) == call[t] \in {"wait", "wait_timeout"}

\* C38: Condvar::wait and wait_timeout neither run the guard's drop when they
\* take the guard nor take a new token when they hand it back: the guard comes
\* back with the mutex held and the token of the original acquisition. Dropping
\* it sets the poison flag if and only if the thread began to unwind with a
\* guard in hand (a thread that is not unwinding leaves the flag as it is), and
\* then gives the mutex back, once.
C38_WaitKeepsToken ==
    /\ [][\A t \in WtThreads :
            /\ (holds[t] /\ pc'[t] = "cv_wait") =>
                 (token'[t] = token[t] /\ failed' = failed /\ FromWait(t)')
            /\ (pc[t] = "cv_relock" /\ pc'[t] = "run") =>
                 /\ FromWait(t)
                 /\ token'[t] = token[t] /\ failed' = failed
                 /\ holds'[t] /\ owner = NoThread /\ owner' = t
            /\ (FromWait(t) /\ holds[t] /\ ~holds'[t] /\ pc'[t] = "unlock") =>
                 /\ failed' = (failed \/ t \in crashed)
                 /\ ~panicking[t] => failed' = failed
                 /\ owner = t /\ owner' = t
            /\ (FromWait(t) /\ pc[t] = "unlock" /\ pc'[t] = "run") =>
                 (owner = t /\ owner' = NoThread /\ failed' = failed)]_vars
    /\ [](\A t \in WtThreads :
            /\ (FromWait(t) /\ holds[t] /\ ~panicking[t]) => ~token[t]
            /\ (FromWait(t) /\ holds[t]) => owner = t
            /\ (FromWait(t) /\ Running(t) /\ ~holds[t]) => owner # t)

\* A thread came back from wait_timeout by timeout, panicked with the guard
\* and is dead: the mutex is poisoned and free, and nobody else panicked.
C38_Witness ==
    \E t \in WtThreads :
        /\ call[t] = "wait_timeout" /\ timed_out[t] = "yes"
        /\ pc[t] = "dead" /\ ~token[t]
        /\ crashed = {t} /\ failed
        /\ owner = NoThread

\* ---------------------------------------------------- sys::fallback::Mutex
\* The Mutex on the fallback backend: sys::Mutex is a std::sync::Mutex<()> of
\* the host, whose own poisoning is discarded. owner is the thread that holds
\* the host mutex.

\* std::sync::Mutex::try_lock of the host
host_try_lock ==
    IF owner # NoThread THEN "WouldBlock"
    ELSE IF host_poisoned THEN "Poisoned" ELSE "Ok"

\* std::sync::Mutex::lock of the host, once the mutex is free
host_lock == IF host_poisoned THEN "Poisoned" ELSE "Ok"

\* try_ignore_poison: Ok and Poisoned carry the guard, WouldBlock is None.
try_ignore_poison(r) ==
    CASE r = "Ok" -> "Some"
      [] r = "Poisoned" -> "Some"
      [] r = "WouldBlock" -> "None"

\* ignore_poison: the guard, out of Ok or out of the PoisonError.
ignore_poison(r) ==
    CASE r = "Ok" -> "guard"
      [] r = "Poisoned" -> "guard"

\* sys::fallback Mutex::lock: blocks while the host mutex is held.
fallback_lock(t) ==
    /\ owner = NoThread
    /\ ignore_poison(host_lock) = "guard"
    /\ owner' = t

\* Drop of the host's MutexGuard: the host poisons its mutex if the thread
\* began to unwind after the guard was made (the host's guard notes whether the
\* thread was panicking when it locked, as token[t] does), then unlocks.
fallback_unlock(t) ==
    /\ host_poisoned' = (host_poisoned \/ (panicking[t] /\ ~token[t]))
    /\ owner' = NoThread

\* Mutex::lock returns on the fallback backend.
FbLockReturn(t) ==
    /\ pc[t] = "lock"
    /\ fallback_lock(t)
    /\ token' = [token EXCEPT ![t] = borrow_token(t)]
    /\ result' = [result EXCEPT ![t] = borrow_result]
    /\ holds' = [holds EXCEPT ![t] = TRUE]
    /\ pc' = [pc EXCEPT ![t] = "run"]
    /\ UNCHANGED <<panicking, failed, waiters, crashed>>

\* Mutex::try_lock returns on the fallback backend: sys try_lock gives
\* Some(guard) or None, `.ok_or(TryLockError::WouldBlock)?`, then poison.borrow().
FbTryLockReturn(t) ==
    /\ pc[t] = "try_lock"
    /\ IF try_ignore_poison(host_try_lock) = "Some"
       THEN /\ owner' = t
            /\ token' = [token EXCEPT ![t] = borrow_token(t)]
            /\ result' = [result EXCEPT ![t] = borrow_result]
            /\ holds' = [holds EXCEPT ![t] = TRUE]
       ELSE /\ result' = [result EXCEPT ![t] = "WouldBlock"]
            /\ UNCHANGED <<owner, token, holds>>
    /\ pc' = [pc EXCEPT ![t] = "run"]
    /\ UNCHANGED <<panicking, failed, waiters, crashed>>

\* The fields of the MutexGuard are dropped on the fallback backend.
FbGuardUnlock(t) ==
    /\ pc[t] = "unlock"
    /\ fallback_unlock(t)
    /\ pc' = [pc EXCEPT ![t] = "run"]
    /\ UNCHANGED <<panicking, result, failed, holds, token, waiters, crashed>>

\* What the drop of the host's guard leaves alone outside the Mutex.
FbUnlockKeeps ==
    UNCHANGED <<call, cvars, rvars, bvars, xvars,
                prim, debug_assertions, backend, state, runs, writes, drops,
                gone, life>>

\* One Mutex from boxed() / arc(), built for either backend.
InitBackends ==
    /\ InitMutex /\ InitCounter /\ InitRwLock /\ InitBarrier(NumThreads) /\ InitCondvar
    /\ prim = "Mutex"
    /\ debug_assertions = TRUE
    /\ backend \in {"unix", "fallback"}
    /\ host_poisoned = FALSE
    /\ state = INIT
    /\ runs = 1
    /\ writes = 1
    /\ drops = 0
    /\ gone = FALSE
    /\ call = [t \in Threads |-> "none"]
    /\ life = "done"

\* lock, try_lock, guard drop, panic and is_poisoned on the Mutex of the build's
\* backend. A thread does not lock the mutex while it holds its guard.
BackendStep(t) ==
    \/ ~holds[t] /\ LockCall(t) /\ MutexCalled(t, "lock")
    \/ backend = "unix" /\ LockReturn(t) /\ MutexInside
    \/ backend = "fallback" /\ FbLockReturn(t) /\ MutexInside
    \/ ~holds[t] /\ TryLockCall(t) /\ MutexCalled(t, "try_lock")
    \/ backend = "unix" /\ TryLockReturn(t) /\ MutexInside
    \/ backend = "fallback" /\ FbTryLockReturn(t) /\ MutexInside
    \/ GuardDrop(t) /\ MutexInside
    \/ backend = "unix" /\ GuardUnlock(t) /\ MutexInside
    \/ backend = "fallback" /\ FbGuardUnlock(t) /\ FbUnlockKeeps
    \/ Panic(t) /\ MutexInside
    \/ Finish(t) /\ MutexInside
    \/ is_poisoned(t)

NextBackends == \E t \in PoisonThreads : BackendStep(t)

SpecBackends == InitBackends /\ [][NextBackends]_vars

\* ----------------------------------------------------------- backend claims

\* C39: from the same state of the Mutex the two backends do the same: the
\* return of lock() and the return of try_lock() made on one backend can be made
\* on the other, with the same result (Ok, Poisoned or WouldBlock), the same
\* owner and the same poison flag, and is_poisoned() reports that flag; the
\* poisoning of the host's mutex has no part in it.
C39_BackendsAgree ==
    [][\A t \in PoisonThreads :
        /\ (pc[t] = "lock" /\ pc'[t] = "run") =>
             (LockReturn(t) /\ FbLockReturn(t))
        /\ (pc[t] = "try_lock" /\ pc'[t] = "run") =>
             (TryLockReturn(t) /\ FbTryLockReturn(t))
        /\ (pc[t] = "unlock" /\ pc'[t] = "run") =>
             (GuardUnlock(t) /\ owner' = NoThread /\ failed' = failed)
        /\ (call'[t] = "is_poisoned" /\ call[t] # "is_poisoned") =>
             result'[t] = IF failed THEN "true" ELSE "false"]_vars

====
